---- MODULE Spec2Model ----
(***************************************************************************)
(* TTSMixmaster: service registry, acquisition engine (AudioDownloader),   *)
(* publication engine (AzureBlobUploader), streaming adapter request path  *)
(* (SpotifyService._make_request) and artifact formatter (TTSFormatter).   *)
(*                                                                         *)
(* Text is modelled as a sequence of one-character strings, so that the    *)
(* sanitisers, the suffix extraction and the name derivations are computed *)
(* character by character as the Python code computes them.                *)
(*                                                                         *)
(* Each component has its own specification (SpecRegistry, SpecAcquire,    *)
(* ...) over the shared variables; the variables of the other components   *)
(* stay at their initial values.                                           *)
(***************************************************************************)
EXTENDS Integers, Sequences, FiniteSets, TLC

VARIABLES
    services,          \* MusicServiceManager.services: tag -> adapter or None
    service_configs,   \* MusicServiceManager.service_configs: tag -> ServiceConfig
    lastConfigure,     \* the last configure_service call and what it returned
    lastDispatch,      \* the last get_all_playlists / search_all_services call
    YT_DLP_AVAILABLE,  \* audio_downloader.YT_DLP_AVAILABLE (import succeeded)
    ffmpeg_available,  \* AudioDownloader.ffmpeg_available
    files,             \* names of the files in the download directory
    lastAcquire,       \* the last search_and_download_track call and its result
    playlist_info,     \* the PlaylistInfo handed to download_playlist
    batch,             \* download_playlist in progress: loop index and locals
    lastBatch,         \* the last completed download_playlist: results, manifest
    blob_service_client, \* AzureBlobUploader.blob_service_client is initialised
    localFiles,        \* the local paths that exist (Path.exists())
    blobs,             \* names of the blobs in the container
    lastUpload,        \* the last upload_audio_file call and its result
    lastUploadBatch,   \* the upload_playlist_files call and its results
    namingInput,       \* two Track values and the local file, for the derivations
    namingOutput,      \* the target paths and remote keys derived from them
    access_token,      \* SpotifyService.access_token
    lastRequest,       \* the last _make_request call: its requests and result
    formatterInput,    \* the arguments of a create_music_player call
    lastPlayer,        \* what that call produced
    renderInput,       \* the music player handed to generate_json_data
    rendered,          \* the JSON text and what parsing it yields
    channel,           \* the channel title handed to _is_official_channel
    classified,        \* what _is_official_channel returned for it
    remote,            \* the upstream account: clients, identifiers and the playlists it holds
    lastListing,       \* the last get_user_playlists / search_playlists call of an adapter
    library,           \* the upstream playlist being resolved and how the server pages it
    lastResolve,       \* the last get_playlist_tracks call of an adapter
    video,             \* the video title and channel title handed to _parse_track_from_title
    parsedTrack,            \* the (artist, title) it returned
    playlistItem,      \* the playlistItems entry being turned into a Track
    itemTrack,         \* the follow-up search made for it and the Track built
    selected_playlist, \* PlaylistTabManager.selected_playlist and whether its tracks were populated
    threads,           \* the worker threads started by _start_download and _start_upload that still run
    self_download_results, \* TTSMixmasterApp.download_results: success of each DownloadResult
    self_upload_results, \* TTSMixmasterApp.upload_results: the track each UploadResult belongs to
    download_dir,      \* the tracks whose audio file is in the playlist download folder
    built_player,      \* the player built by _generate_tts_code: the track each entry took its URL from
    saveCall,          \* the arguments of a generate_save_file call
    save_data,         \* what that call returned
    manifestInput,     \* a PlaylistInfo and the outcome of each of its tracks in a batch
    manifest_file,     \* the content of playlist_manifest.txt
    completeness       \* what get_playlist_completeness returned for it

regVars == <<services, service_configs, lastConfigure, lastDispatch>>

dlVars == <<YT_DLP_AVAILABLE, ffmpeg_available, files, lastAcquire,
            playlist_info, batch, lastBatch>>

ulVars == <<blob_service_client, localFiles, blobs, lastUpload,
            lastUploadBatch>>

nmVars == <<namingInput, namingOutput>>

spVars == <<access_token, lastRequest>>

fmVars == <<formatterInput, lastPlayer>>

rnVars == <<renderInput, rendered>>

chVars == <<channel, classified>>

lsVars == <<remote, lastListing>>

rsVars == <<library, lastResolve>>

ptVars == <<video, parsedTrack>>

fuVars == <<playlistItem, itemTrack>>

coVars == <<selected_playlist>>

guiVars == <<threads, self_download_results, self_upload_results, download_dir, built_player>>

svVars == <<saveCall, save_data>>

mfVars == <<manifestInput, manifest_file, completeness>>

vars == <<regVars, dlVars, ulVars, nmVars, spVars, fmVars, rnVars, chVars,
          lsVars, rsVars, ptVars, fuVars, coVars, guiVars, svVars, mfVars>>

\* the variables outside the registry, the downloader, the uploader, the
\* name derivations, the streaming adapter, the formatter
notRegVars == <<dlVars, ulVars, nmVars, spVars, fmVars, rnVars, chVars,
                lsVars, rsVars, ptVars, fuVars, coVars, guiVars, svVars,
                mfVars>>
notDlVars == <<regVars, ulVars, nmVars, spVars, fmVars, rnVars, chVars,
               lsVars, rsVars, ptVars, fuVars, coVars, guiVars, svVars,
               mfVars>>
notUlVars == <<regVars, dlVars, nmVars, spVars, fmVars, rnVars, chVars,
               lsVars, rsVars, ptVars, fuVars, coVars, guiVars, svVars,
               mfVars>>
notNmVars == <<regVars, dlVars, ulVars, spVars, fmVars, rnVars, chVars,
               lsVars, rsVars, ptVars, fuVars, coVars, guiVars, svVars,
               mfVars>>
notSpVars == <<regVars, dlVars, ulVars, nmVars, fmVars, rnVars, chVars,
               lsVars, rsVars, ptVars, fuVars, coVars, guiVars, svVars,
               mfVars>>
notFmVars == <<regVars, dlVars, ulVars, nmVars, spVars, rnVars, chVars,
               lsVars, rsVars, ptVars, fuVars, coVars, guiVars, svVars,
               mfVars>>
notRnVars == <<regVars, dlVars, ulVars, nmVars, spVars, fmVars, chVars,
               lsVars, rsVars, ptVars, fuVars, coVars, guiVars, svVars,
               mfVars>>
notChVars == <<regVars, dlVars, ulVars, nmVars, spVars, fmVars, rnVars,
               lsVars, rsVars, ptVars, fuVars, coVars, guiVars, svVars,
               mfVars>>
notLsVars == <<regVars, dlVars, ulVars, nmVars, spVars, fmVars, rnVars,
               chVars, rsVars, ptVars, fuVars, coVars, guiVars, svVars,
               mfVars>>
notRsVars == <<regVars, dlVars, ulVars, nmVars, spVars, fmVars, rnVars,
               chVars, lsVars, ptVars, fuVars, coVars, guiVars, svVars,
               mfVars>>
notPtVars == <<regVars, dlVars, ulVars, nmVars, spVars, fmVars, rnVars,
               chVars, lsVars, rsVars, fuVars, coVars, guiVars, svVars,
               mfVars>>
notFuVars == <<regVars, dlVars, ulVars, nmVars, spVars, fmVars, rnVars,
               chVars, lsVars, rsVars, ptVars, coVars, guiVars, svVars,
               mfVars>>
notCoVars == <<regVars, dlVars, ulVars, nmVars, spVars, fmVars, rnVars,
               chVars, lsVars, rsVars, ptVars, fuVars, guiVars, svVars,
               mfVars>>
notGuiVars == <<regVars, dlVars, ulVars, nmVars, spVars, fmVars, rnVars,
                chVars, lsVars, rsVars, ptVars, fuVars, coVars, svVars,
                mfVars>>
notSvVars == <<regVars, dlVars, ulVars, nmVars, spVars, fmVars, rnVars,
               chVars, lsVars, rsVars, ptVars, fuVars, coVars, guiVars,
               mfVars>>
notMfVars == <<regVars, dlVars, ulVars, nmVars, spVars, fmVars, rnVars,
               chVars, lsVars, rsVars, ptVars, fuVars, coVars, guiVars,
               svVars>>

\* Python's None (a record, so that it compares with records)
None == [none |-> TRUE]
\* an exception escaping a call (a tuple, so that it compares with lists)
Raise == <<"raise">>

(***************************************************************************)
(* Service registry (src/api/service_manager.py)                           *)
(***************************************************************************)

\* ServiceType, in the insertion order of service_configs
ServiceType == <<"lastfm", "youtube", "spotify">>

Tags == {ServiceType[i] : i \in 1..Len(ServiceType)}

\* a service_type value outside the three handled by configure_service
UnknownTag == "unknown"

\* credential dictionaries the user may submit
Credentials == {"credsA", "credsB"}

\* ServiceConfig.__post_init__: credentials None becomes {}
EmptyCredentials == "{}"

ServiceConfig(enabled, credentials) ==
    [enabled |-> enabled, credentials |-> credentials]

\* what constructing the adapter and calling test_connection() can do
ConnectionOutcomes == {"connected", "test_false", "raises"}

\* mutant of StoreOnSuccess: the adapter is stored before the connection test
StoreBeforeTest(svcs, tag, service, outcome) ==
    IF outcome = "raises" THEN svcs ELSE [svcs EXCEPT ![tag] = service]

\* configure_service lines 72-73: self.services[service_type] = service
StoreOnSuccess(svcs, tag, service, outcome) ==
    IF outcome = "connected" THEN [svcs EXCEPT ![tag] = service] ELSE svcs

\* mutant of ConfigOnSuccess: the tag is enabled, the credentials are not kept
EnableOnly(cfgs, tag, credentials, outcome) ==
    IF outcome = "connected"
    THEN [cfgs EXCEPT ![tag] = ServiceConfig(TRUE, cfgs[tag].credentials)]
    ELSE cfgs

\* configure_service lines 74-75: enabled = True, credentials = credentials
ConfigOnSuccess(cfgs, tag, credentials, outcome) ==
    IF outcome = "connected"
    THEN [cfgs EXCEPT ![tag] = ServiceConfig(TRUE, credentials)]
    ELSE cfgs

\* MusicServiceManager.configure_service
configure_service(tag, credentials, outcome) ==
    /\ IF tag \in Tags
       THEN /\ services' = StoreOnSuccess(services, tag,
                                          [type |-> tag, credentials |-> credentials],
                                          outcome)
            /\ service_configs' = ConfigOnSuccess(service_configs, tag,
                                                  credentials, outcome)
            /\ lastConfigure' = [tag |-> tag, credentials |-> credentials,
                                 returned |-> (outcome = "connected")]
       ELSE /\ UNCHANGED <<services, service_configs>>
            /\ lastConfigure' = [tag |-> tag, credentials |-> credentials,
                                 returned |-> FALSE]
    /\ UNCHANGED <<lastDispatch, notRegVars>>

ConfigureService ==
    \E tag \in Tags \cup {UnknownTag}, credentials \in Credentials,
       outcome \in ConnectionOutcomes :
        configure_service(tag, credentials, outcome)

\* get_enabled_services: the enabled tags, in dictionary order
get_enabled_services(cfgs) ==
    SelectSeq(ServiceType, LAMBDA t : cfgs[t].enabled)

EnabledTags == {t \in Tags : service_configs[t].enabled}

\* playlists an adapter may return from a listing or a search
PlaylistLists == {<<>>, <<"p1", "p2">>}

\* manager.get_user_playlists / search_playlists lines 98-102 and 114-118:
\* ValueError when no adapter is stored, else whatever the adapter does
CallAdapter(svcs, tag, adapterOutcome) ==
    IF svcs[tag] = None THEN Raise ELSE adapterOutcome[tag]

\* mutant of GuardedCall: no try/except around the adapter call
UnguardedCall(outcome) ==
    [raised |-> (outcome = Raise), value |-> outcome]

\* lines 141-146 and 155-160: try ... except Exception: results[tag] = []
GuardedCall(outcome) ==
    [raised |-> FALSE, value |-> IF outcome = Raise THEN <<>> ELSE outcome]

\* the empty dictionary  results = {}
EmptyDict == [t \in {} |-> <<>>]

RECURSIVE DispatchLoop(_, _, _, _, _)
\* the for loop of get_all_playlists / search_all_services
DispatchLoop(svcs, enabled, i, adapterOutcome, results) ==
    IF i > Len(enabled)
    THEN [raised |-> FALSE, results |-> results]
    ELSE LET r == GuardedCall(CallAdapter(svcs, enabled[i], adapterOutcome))
         IN  IF r.raised
             THEN [raised |-> TRUE, results |-> EmptyDict]
             ELSE DispatchLoop(svcs, enabled, i + 1, adapterOutcome,
                               results @@ (enabled[i] :> r.value))

dispatch_to_all(op, adapterOutcome) ==
    /\ lastDispatch' =
          [op |-> op, adapterOutcome |-> adapterOutcome,
           enabled |-> get_enabled_services(service_configs),
           out |-> DispatchLoop(services, get_enabled_services(service_configs),
                                1, adapterOutcome, EmptyDict)]
    /\ UNCHANGED <<services, service_configs, lastConfigure, notRegVars>>

\* MusicServiceManager.get_all_playlists
GetAllPlaylists ==
    \E adapterOutcome \in [EnabledTags -> PlaylistLists \cup {Raise}] :
        dispatch_to_all("get_all_playlists", adapterOutcome)

\* MusicServiceManager.search_all_services
SearchAllServices ==
    \E adapterOutcome \in [EnabledTags -> PlaylistLists \cup {Raise}] :
        dispatch_to_all("search_all_services", adapterOutcome)

\* MusicServiceManager.__init__
RegistryInit ==
    /\ services = [t \in Tags |-> None]
    /\ service_configs = [t \in Tags |-> ServiceConfig(FALSE, EmptyCredentials)]
    /\ lastConfigure = None
    /\ lastDispatch = None

RegistryNext == ConfigureService \/ GetAllPlaylists \/ SearchAllServices

(***************************************************************************)
(* Text helpers: Python str operations on sequences of characters          *)
(***************************************************************************)

\* characters matched by \s
Whitespace == {" ", "\t"}

\* re.sub(r'[...]', '', s): delete every character of the class
RemoveChars(s, class) == SelectSeq(s, LAMBDA c : c \notin class)

RECURSIVE LStrip(_)
LStrip(s) ==
    IF s # <<>> /\ Head(s) \in Whitespace THEN LStrip(Tail(s)) ELSE s

RECURSIVE RStrip(_)
RStrip(s) ==
    IF s # <<>> /\ s[Len(s)] \in Whitespace
    THEN RStrip(SubSeq(s, 1, Len(s) - 1))
    ELSE s

\* str.strip()
Strip(s) == RStrip(LStrip(s))

RECURSIVE ReplaceWhitespaceRuns(_, _)
\* re.sub(r'\s+', rep, s): every maximal run of whitespace becomes rep
ReplaceWhitespaceRuns(s, rep) ==
    IF s = <<>> THEN <<>>
    ELSE IF Head(s) \in Whitespace
         THEN <<rep>> \o ReplaceWhitespaceRuns(LStrip(s), rep)
         ELSE <<Head(s)>> \o ReplaceWhitespaceRuns(Tail(s), rep)

\* s[:n]
Prefix(s, n) == IF Len(s) > n THEN SubSeq(s, 1, n) ELSE s

\* index of the last "." of s, 0 when there is none (str.rfind + 1)
LastDot(s) ==
    LET dots == {i \in 1..Len(s) : s[i] = "."}
    IN  IF dots = {} THEN 0 ELSE CHOOSE i \in dots : \A j \in dots : j <= i

\* pathlib PurePath.suffix of a file name
PathSuffix(name) ==
    IF 1 < LastDot(name) /\ LastDot(name) < Len(name)
    THEN SubSeq(name, LastDot(name), Len(name))
    ELSE <<>>

\* pathlib PurePath.stem of a file name
PathStem(name) ==
    IF 1 < LastDot(name) /\ LastDot(name) < Len(name)
    THEN SubSeq(name, 1, LastDot(name) - 1)
    ELSE name

Separator == <<" ", "-", " ">>
Mp3 == <<".", "m", "p", "3">>
M4a == <<".", "m", "4", "a">>

(***************************************************************************)
(* Acquisition engine (src/downloader/audio_downloader.py)                 *)
(***************************************************************************)

\* sanitize_filename line 171: the character class [<>:"/\\|?*]
InvalidFilenameChars == {"<", ">", ":", "\"", "/", "\\", "|", "?", "*"}

\* sanitize_filename lines 176-177
MaxFilenameLength == 200

\* AudioDownloader.sanitize_filename
sanitize_filename(filename) ==
    Prefix(Strip(ReplaceWhitespaceRuns(RemoveChars(filename, InvalidFilenameChars),
                                       " ")),
           MaxFilenameLength)

\* f"{track.artist} - {track.title}"
ArtistTitle(track) == track.artist \o Separator \o track.title

\* mutant of ExpectedFilename: the album takes part in the expected name
ExpectedFilenameWithAlbum(track) ==
    sanitize_filename(ArtistTitle(track) \o track.album \o Mp3)

\* search_and_download_track line 206: expected_filename
ExpectedFilename(track) == sanitize_filename(ArtistTitle(track) \o Mp3)

\* the tracks the collections are drawn from: TrackA and TrackA2 are the same
\* song (equal artist and title) with different album and duration
TrackA  == [title |-> <<"x">>, artist |-> <<"a">>, album |-> <<>>, duration |-> 0]
TrackA2 == [title |-> <<"x">>, artist |-> <<"a">>, album |-> <<"l">>, duration |-> 7]
TrackB  == [title |-> <<"y", "?">>, artist |-> <<"b", " ">>, album |-> <<>>,
            duration |-> 0]

Tracks == {TrackA, TrackA2, TrackB}

\* search_and_download_track line 220: the default search_engines
DefaultEngines == <<"youtube", "soundcloud">>

\* extensions of the file yt-dlp leaves in the temporary directory
FetchedExtensions == {Mp3, M4a}

\* _download_from_engine for one engine: a file with some extension was
\* fetched, or the result is a failure (lines 383-389), or the call raises
Failed == <<"failed">>
EngineOutcomes == FetchedExtensions \cup {Failed, Raise}

\* _download_from_engine lines 352-358: final_filename; the fetched file is
\* "<sanitized name><ext>" (line 316) and original_ext is its suffix
FinalFilename(track, ffmpeg, ext) ==
    IF ffmpeg
    THEN sanitize_filename(ArtistTitle(track) \o Mp3)
    ELSE sanitize_filename(ArtistTitle(track)
                           \o PathSuffix(sanitize_filename(ArtistTitle(track)) \o ext))

DownloadResult(success, track, file_path, fetched) ==
    [success |-> success, track |-> track, file_path |-> file_path,
     fetched |-> fetched]

\* no file_path (None)
NoPath == <<>>

RECURSIVE TryEngines(_, _, _, _, _)
\* search_and_download_track lines 228-241: the first engine whose result
\* succeeds decides; fetched tells whether _download_from_engine was invoked
TryEngines(track, ffmpeg, engines, i, outcome) ==
    IF i > Len(engines)
    THEN DownloadResult(FALSE, track, NoPath, Len(engines) > 0)
    ELSE IF outcome[engines[i]] \in FetchedExtensions
         THEN DownloadResult(TRUE, track,
                             FinalFilename(track, ffmpeg, outcome[engines[i]]), TRUE)
         ELSE TryEngines(track, ffmpeg, engines, i + 1, outcome)

\* AudioDownloader.search_and_download_track: the DownloadResult
SearchAndDownloadTrack(track, dir, ytdlp, ffmpeg, outcome) ==
    IF ~ytdlp
    THEN DownloadResult(FALSE, track, NoPath, FALSE)
    ELSE IF ExpectedFilename(track) \in dir
         THEN DownloadResult(TRUE, track, ExpectedFilename(track), FALSE)
         ELSE TryEngines(track, ffmpeg, DefaultEngines, 1, outcome)

\* the directory after the call: line 367 moves the fetched file into place
FilesAfter(dir, result) ==
    IF result.success /\ result.fetched THEN dir \cup {result.file_path} ELSE dir

\* a single search_and_download_track call on the download directory
Acquire ==
    /\ batch = None
    /\ \E track \in Tracks, outcome \in [{"youtube", "soundcloud"} -> EngineOutcomes] :
         LET result == SearchAndDownloadTrack(track, files, YT_DLP_AVAILABLE,
                                              ffmpeg_available, outcome)
         IN  /\ files' = FilesAfter(files, result)
             /\ lastAcquire' =
                   [result |-> result,
                    call |-> IF lastAcquire = None THEN 0
                             ELSE 1 - lastAcquire.call]
    /\ UNCHANGED <<YT_DLP_AVAILABLE, ffmpeg_available, playlist_info, batch,
                   lastBatch, notDlVars>>

\* longest collection handed to download_playlist
MaxTracks == 2

RECURSIVE SeqsUpTo(_, _)
\* the sequences over S of length at most n
SeqsUpTo(S, n) ==
    IF n = 0 THEN {<<>>}
    ELSE SeqsUpTo(S, n - 1)
         \cup {Append(q, x) : q \in {r \in SeqsUpTo(S, n - 1) : Len(r) = n - 1},
                              x \in S}

\* PlaylistInfo (name, service_type and tracks are what the batch reads)
PlaylistInfo(name, tracks) ==
    [name |-> name, service_type |-> "lastfm", tracks |-> tracks]

Range(q) == {q[i] : i \in 1..Len(q)}

\* save_playlist_manifest lines 389-393: one line per track, marked with the
\* success sign when  track in tracks_downloaded  (dataclass equality)
ManifestLines(tracks, tracks_downloaded) ==
    [i \in 1..Len(tracks) |->
        [index |-> i, artist |-> tracks[i].artist, title |-> tracks[i].title,
         ok |-> tracks[i] \in Range(tracks_downloaded)]]

\* config.save_playlist_manifest: the content of playlist_manifest.txt
save_playlist_manifest(playlist, tracks_downloaded) ==
    [name |-> playlist.name,
     service |-> playlist.service_type,
     total_tracks |-> Len(playlist.tracks),
     downloaded |-> Len(tracks_downloaded),
     lines |-> ManifestLines(playlist.tracks, tracks_downloaded),
     failed |-> SelectSeq(playlist.tracks,
                          LAMBDA t : t \notin Range(tracks_downloaded))]

\* mutant of AppendResult: only successful results are collected
AppendIfSuccess(results, result) ==
    IF result.success THEN Append(results, result) ELSE results

\* download_playlist line 274: results.append(result)
AppendResult(results, result) == Append(results, result)

\* download_playlist lines 279-286: write the manifest, return the results
FinishBatch(results, downloaded_tracks) ==
    /\ lastBatch' = [results |-> results,
                     manifest |-> save_playlist_manifest(playlist_info,
                                                         downloaded_tracks)]
    /\ batch' = None

\* download_playlist lines 259-264: entry, before the loop
DownloadPlaylistStart ==
    /\ batch = None
    /\ IF Len(playlist_info.tracks) = 0
       THEN FinishBatch(<<>>, <<>>)
       ELSE /\ batch' = [i |-> 0, results |-> <<>>, downloaded_tracks |-> <<>>]
            /\ UNCHANGED lastBatch
    /\ UNCHANGED <<YT_DLP_AVAILABLE, ffmpeg_available, files, lastAcquire,
                   playlist_info, notDlVars>>

\* download_playlist lines 266-286: one iteration of the loop; the last
\* iteration goes on to write the manifest and return
DownloadPlaylistTrack ==
    /\ batch # None
    /\ \E outcome \in [{"youtube", "soundcloud"} -> EngineOutcomes] :
         LET track == playlist_info.tracks[batch.i + 1]
             result == SearchAndDownloadTrack(track, files, YT_DLP_AVAILABLE,
                                              ffmpeg_available, outcome)
             results == AppendResult(batch.results, result)
             downloaded_tracks == IF result.success
                                  THEN Append(batch.downloaded_tracks, track)
                                  ELSE batch.downloaded_tracks
         IN  /\ files' = FilesAfter(files, result)
             /\ IF batch.i + 1 = Len(playlist_info.tracks)
                THEN FinishBatch(results, downloaded_tracks)
                ELSE /\ batch' = [i |-> batch.i + 1, results |-> results,
                                  downloaded_tracks |-> downloaded_tracks]
                     /\ UNCHANGED lastBatch
    /\ UNCHANGED <<YT_DLP_AVAILABLE, ffmpeg_available, lastAcquire, playlist_info,
                   notDlVars>>

\* AudioDownloader.__init__ on an empty download directory
DownloaderInit ==
    /\ YT_DLP_AVAILABLE \in BOOLEAN
    /\ ffmpeg_available \in BOOLEAN
    /\ files = {}
    /\ lastAcquire = None
    /\ batch = None
    /\ lastBatch = None

\* the downloader when only other components are exercised
DownloaderIdle ==
    /\ YT_DLP_AVAILABLE = TRUE
    /\ ffmpeg_available = TRUE
    /\ files = {}
    /\ lastAcquire = None
    /\ playlist_info = PlaylistInfo("P", <<>>)
    /\ batch = None
    /\ lastBatch = None

AcquireNext == Acquire

BatchNext == DownloadPlaylistStart \/ DownloadPlaylistTrack

(***************************************************************************)
(* Specifications                                                          *)
(***************************************************************************)

(***************************************************************************)
(* Publication engine (src/uploader/azure_uploader.py)                     *)
(***************************************************************************)

\* _sanitize_filename line 268: the character class [<>:"/\\|?*\[\]]
InvalidBlobChars == InvalidFilenameChars \cup {"[", "]"}

\* _sanitize_filename line 270: filename[:50]
MaxBlobPartLength == 50

\* AzureBlobUploader._sanitize_filename
SanitizeBlobPart(filename) ==
    Prefix(ReplaceWhitespaceRuns(Strip(RemoveChars(filename, InvalidBlobChars)), "_"),
           MaxBlobPartLength)

\* str.lower() on the characters that occur in file suffixes
LowerChar(c) ==
    CASE c = "M" -> "m"
      [] c = "P" -> "p"
      [] c = "A" -> "a"
      [] OTHER -> c

Lower(s) == [i \in 1..Len(s) |-> LowerChar(s[i])]

\* upload_audio_file called without a track (track = None)
NoTrack == [none |-> TRUE]

AudioFolder == <<"a", "u", "d", "i", "o", "/">>

\* AzureBlobUploader._generate_blob_name
GenerateBlobName(file_path, track) ==
    AudioFolder
    \o (IF track # NoTrack
        THEN SanitizeBlobPart(track.artist) \o Separator
             \o SanitizeBlobPart(track.title)
        ELSE PathStem(file_path))
    \o Lower(PathSuffix(file_path))

\* lines 158 and 204: the public URL of a blob of the container
PublicUrl(blob_name) ==
    <<"https://account.blob.core.windows.net/tts-audio/">> \o blob_name

UploadResult(success, file_path, public_url, blob_name, error_message) ==
    [success |-> success, file_path |-> file_path, public_url |-> public_url,
     blob_name |-> blob_name, error_message |-> error_message]

\* public_url / blob_name / custom_blob_name = None
NoText == <<>>

\* the local paths handed to upload_audio_file
LocalPaths ==
    {ArtistTitle(TrackA) \o Mp3, ArtistTitle(TrackA) \o M4a,
     <<"s", ".", "M", "P", "3">>}

\* custom_blob_name values: None or a name
CustomBlobNames == {NoText, <<"k">>}

\* line 145: custom_blob_name or self._generate_blob_name(...)
BlobNameFor(file_path, track, custom_blob_name) ==
    IF custom_blob_name # NoText THEN custom_blob_name
    ELSE GenerateBlobName(file_path, track)

\* mutant of BlobExists: the existence check is skipped
BlobNeverExists(container, blob_name) == FALSE

\* lines 153-172: get_blob_properties() answers for an existing blob and
\* raises for a missing one
BlobExists(container, blob_name) == blob_name \in container

\* what upload_blob does: it stores the blob, or raises an exception whose
\* str() is the text (possibly empty)
PutOutcomes ==
    {[raises |-> FALSE, text |-> ""]}
    \cup {[raises |-> TRUE, text |-> t] : t \in {"", "timeout"}}

\* error_message = None
NoMessage == <<>>

\* mutant of UploadFailed: the message is the exception text alone
BareExceptionText(e) == <<e>>

\* lines 217-229: error_msg = f"Upload failed: {str(e)}" (or "Azure upload
\* failed: ..."), a fixed prefix followed by the exception text
UploadFailed(e) == <<"Upload failed: ", e>>

\* a message with at least one character
NonEmptyMessage(error_message) ==
    \E i \in 1..Len(error_message) : error_message[i] # ""

\* AzureBlobUploader.upload_audio_file: the result and whether upload_blob
\* was invoked; put is what upload_blob does
UploadAudioFile(file_path, track, custom_blob_name, client, existing, container, put) ==
    LET blob_name == BlobNameFor(file_path, track, custom_blob_name)
    IN  IF ~client
        THEN [result |-> UploadResult(FALSE, file_path, NoText, NoText,
                                      <<"Azure Blob client not initialized">>),
              transfer |-> FALSE]
        ELSE IF file_path \notin existing
        THEN [result |-> UploadResult(FALSE, file_path, NoText, NoText,
                                      <<"File does not exist">>),
              transfer |-> FALSE]
        ELSE IF BlobExists(container, blob_name)
        THEN [result |-> UploadResult(TRUE, file_path, PublicUrl(blob_name),
                                      blob_name, NoMessage),
              transfer |-> FALSE]
        ELSE IF ~put.raises
        THEN [result |-> UploadResult(TRUE, file_path, PublicUrl(blob_name),
                                      blob_name, NoMessage),
              transfer |-> TRUE]
        ELSE [result |-> UploadResult(FALSE, file_path, NoText, NoText,
                                      UploadFailed(put.text)),
              transfer |-> TRUE]

\* one upload_audio_file call
Publish ==
    \E file_path \in LocalPaths, track \in Tracks \cup {NoTrack},
       custom_blob_name \in CustomBlobNames, put \in PutOutcomes :
        LET out == UploadAudioFile(file_path, track, custom_blob_name,
                                   blob_service_client, localFiles, blobs, put)
        IN  /\ blobs' = IF out.transfer /\ out.result.success
                        THEN blobs \cup {out.result.blob_name}
                        ELSE blobs
            /\ lastUpload' =
                  [file_path |-> file_path, track |-> track,
                   custom_blob_name |-> custom_blob_name,
                   result |-> out.result, transfer |-> out.transfer,
                   call |-> IF lastUpload = None THEN 0 ELSE 1 - lastUpload.call]
            /\ UNCHANGED <<blob_service_client, localFiles, lastUploadBatch,
                           notUlVars>>

\* longest file_paths list handed to upload_playlist_files
MaxUploadBatch == 2

\* mutant of TrackAt: every path is paired with the first track
FirstTrack(tracks_list, i) ==
    IF 1 <= Len(tracks_list) THEN tracks_list[1] ELSE NoTrack

\* upload_playlist_files line 315: tracks_list[i] if i < len(tracks_list)
\* else None
TrackAt(tracks_list, i) ==
    IF i <= Len(tracks_list) THEN tracks_list[i] ELSE NoTrack

\* upload_playlist_files lines 314-317: the loop from item i on; calls are
\* the upload_audio_file invocations made, container the blobs so far
RECURSIVE UploadLoop(_, _, _, _, _, _)
UploadLoop(file_paths, tracks_list, puts, i, container, acc) ==
    IF i > Len(file_paths)
    THEN [results |-> acc.results, calls |-> acc.calls, blobs |-> container]
    ELSE LET track == TrackAt(tracks_list, i)
             out == UploadAudioFile(file_paths[i], track, NoText,
                                    blob_service_client, localFiles,
                                    container, puts[i])
         IN  UploadLoop(file_paths, tracks_list, puts, i + 1,
                        IF out.transfer /\ out.result.success
                        THEN container \cup {out.result.blob_name}
                        ELSE container,
                        [results |-> Append(acc.results, out.result),
                         calls |-> Append(acc.calls,
                                          [file_path |-> file_paths[i],
                                           track |-> track])])

\* upload_playlist_files: tracks None or empty gives [None] * len(file_paths)
UploadPlaylistFiles(file_paths, tracks, puts) ==
    UploadLoop(file_paths,
               IF tracks = <<>> THEN [i \in 1..Len(file_paths) |-> NoTrack]
               ELSE tracks,
               puts, 1, blobs, [results |-> <<>>, calls |-> <<>>])

\* one upload_playlist_files call
PublishBatch ==
    /\ lastUploadBatch = None
    /\ \E file_paths \in SeqsUpTo(LocalPaths, MaxUploadBatch),
          tracks \in SeqsUpTo(Tracks, MaxUploadBatch) :
        \E puts \in [1..Len(file_paths) -> PutOutcomes] :
            LET out == UploadPlaylistFiles(file_paths, tracks, puts)
            IN  /\ blobs' = out.blobs
                /\ lastUploadBatch' =
                      [file_paths |-> file_paths, tracks |-> tracks,
                       results |-> out.results, calls |-> out.calls]
                /\ UNCHANGED <<blob_service_client, localFiles, lastUpload,
                               notUlVars>>

\* AzureBlobUploader.__init__: the client is created or not; the container
\* is empty; some of the local paths exist
UploaderInit ==
    /\ blob_service_client \in BOOLEAN
    /\ localFiles \in SUBSET LocalPaths
    /\ blobs = {}
    /\ lastUpload = None
    /\ lastUploadBatch = None

\* the uploader when only other components are exercised
UploaderIdle ==
    /\ blob_service_client = TRUE
    /\ localFiles = {}
    /\ blobs = {}
    /\ lastUpload = None
    /\ lastUploadBatch = None

UploaderNext == Publish

UploadBatchNext == PublishBatch

(***************************************************************************)
(* Name derivations as pure functions of a Track                           *)
(* (search_and_download_track line 206, _generate_blob_name)               *)
(***************************************************************************)

\* longest artist or title drawn for the derivations
MaxNameLen == 2

\* characters of artists and titles: a letter, whitespace, a character both
\* sanitisers delete and one only the blob sanitiser deletes
NameChars == {"a", " ", "/", "["}

Names == SeqsUpTo(NameChars, MaxNameLen)

\* Track values with every artist and title, two albums, two durations
NamedTracks ==
    [title : Names, artist : Names, album : {<<>>, <<"l">>}, duration : {0, 7}]

\* derive the target path and the remote key of both tracks
DeriveNames ==
    /\ namingOutput = None
    /\ namingOutput' =
          [path |-> <<ExpectedFilename(namingInput.track[1]),
                      ExpectedFilename(namingInput.track[2])>>,
           key |-> <<GenerateBlobName(namingInput.file_path, namingInput.track[1]),
                     GenerateBlobName(namingInput.file_path, namingInput.track[2])>>]
    /\ UNCHANGED <<namingInput, notNmVars>>

\* two Track values with equal (artist, title) and any other fields
NamingInit ==
    /\ namingInput \in
          {[track |-> <<t, [t EXCEPT !.album = album, !.duration = duration]>>,
            file_path |-> file_path] :
              t \in NamedTracks, album \in {<<>>, <<"l">>}, duration \in {0, 7},
              file_path \in {ArtistTitle(TrackA) \o Mp3, <<"s", ".", "M", "P", "3">>}}
    /\ namingOutput = None

\* the derivations when only other components are exercised
NamingIdle ==
    /\ namingInput = None
    /\ namingOutput = None

NamingNext == DeriveNames

(***************************************************************************)
(* Streaming adapter request path (src/api/spotify_service.py)             *)
(***************************************************************************)

\* bearer tokens the token endpoint may issue
Tokens == {"tokenA", "tokenB"}

\* access_token = None
NoToken == "None"

\* API endpoints requested by the adapter's methods
Endpoints == {"playlists", "search"}

\* what the POST to the token endpoint does: status 200 with a body that holds
\* an access_token or not, or any other status or an exception
AuthOutcomes ==
    {[ok |-> TRUE, access_token |-> t] : t \in Tokens \cup {NoToken}}
    \cup {[ok |-> FALSE, access_token |-> NoToken]}

\* what a GET does: a response with a status code, or an exception
GetOutcomes ==
    {[raises |-> FALSE, status_code |-> c] : c \in {200, 401, 404, 500}}
    \cup {[raises |-> TRUE, status_code |-> 0]}

\* _authenticate: the call's return value and access_token after it
Authenticate(token, outcome) ==
    [returned |-> outcome.ok,
     access_token |-> IF outcome.ok THEN outcome.access_token ELSE token]

\* response.json()
Json(endpoint) == [json |-> endpoint]

\* one requests.get with its Authorization header
Get(token, outcome) ==
    [bearer |-> token, raises |-> outcome.raises, status_code |-> outcome.status_code]

\* mutant of TokenExpired: every failed response is retried
AnyFailure(response) == response.status_code # 200

\* _make_request line 111: elif response.status_code == 401
TokenExpired(response) == response.status_code = 401

\* _make_request: the GETs sent, the _authenticate calls made after a
\* response, access_token after the call and the value returned
MakeRequest(token, endpoint, auth0, get1, auth1, get2) ==
    LET first == IF token = NoToken
                 THEN Authenticate(token, auth0)
                 ELSE [returned |-> TRUE, access_token |-> token]
        again == Authenticate(first.access_token, auth1)
        Outcome(gets, reauth, tok, returned) ==
            [endpoint |-> endpoint, gets |-> gets, reauth |-> reauth,
             access_token |-> tok, returned |-> returned]
    IN  IF ~first.returned
        THEN Outcome(<<>>, <<>>, first.access_token, None)
        ELSE IF get1.raises
        THEN Outcome(<<Get(first.access_token, get1)>>, <<>>,
                     first.access_token, None)
        ELSE IF get1.status_code = 200
        THEN Outcome(<<Get(first.access_token, get1)>>, <<>>,
                     first.access_token, Json(endpoint))
        ELSE IF TokenExpired(get1)
        THEN IF again.returned
             THEN Outcome(<<Get(first.access_token, get1),
                            Get(again.access_token, get2)>>,
                          <<again>>, again.access_token,
                          IF ~get2.raises /\ get2.status_code = 200
                          THEN Json(endpoint) ELSE None)
             ELSE Outcome(<<Get(first.access_token, get1)>>, <<again>>,
                          again.access_token, None)
        ELSE Outcome(<<Get(first.access_token, get1)>>, <<>>,
                     first.access_token, None)

\* one call of _make_request by a method of the adapter
SpotifyRequest ==
    \E endpoint \in Endpoints, auth0 \in AuthOutcomes, get1 \in GetOutcomes,
       auth1 \in AuthOutcomes, get2 \in GetOutcomes :
        LET r == MakeRequest(access_token, endpoint, auth0, get1, auth1, get2)
        IN  /\ access_token' = r.access_token
            /\ lastRequest' =
                  [call |-> IF lastRequest = None THEN 0 ELSE 1 - lastRequest.call,
                   result |-> r]
            /\ UNCHANGED notSpVars

\* SpotifyService.__init__: authenticated or not
SpotifyInit ==
    /\ access_token \in Tokens \cup {NoToken}
    /\ lastRequest = None

\* the adapter when only other components are exercised
SpotifyIdle ==
    /\ access_token = NoToken
    /\ lastRequest = None

SpotifyNext == SpotifyRequest

(***************************************************************************)
(* Artifact formatter (src/tts_formatter/tts_formatter.py)                 *)
(***************************************************************************)

\* public URLs an upload result may carry
UrlA == <<"h", ":", "a">>
UrlB == <<"h", ":", "b">>

\* the success and public_url fields of UploadResult values
FormatterUploadResults ==
    {[success |-> TRUE, public_url |-> u] : u \in {NoText, UrlA, UrlB}}
    \cup {[success |-> FALSE, public_url |-> u] : u \in {NoText, UrlA}}

\* local_files entries: absolute and relative paths, present and missing
AbsoluteFile == <<"/", "e", " ", "x">>
AbsoluteMissing == <<"/", "m">>
RelativeFile == <<"d", "/", "e">>
RelativeMissing == <<"d", "/", "m">>

FormatterPaths == {AbsoluteFile, AbsoluteMissing, RelativeFile, RelativeMissing}

\* local_path.exists()
LocalPathExists(path) == path \in {AbsoluteFile, RelativeFile}

\* PurePath.is_absolute() on POSIX
IsAbsolute(path) == Len(path) > 0 /\ path[1] = "/"

\* urllib quoting applied by as_uri
RECURSIVE QuoteUri(_)
QuoteUri(s) ==
    IF s = <<>> THEN <<>>
    ELSE (IF Head(s) = " " THEN <<"%", "2", "0">> ELSE <<Head(s)>>)
         \o QuoteUri(Tail(s))

\* Path.as_uri(): ValueError for a relative path
AsUri(path) ==
    IF IsAbsolute(path)
    THEN <<"f", "i", "l", "e", ":", "/", "/">> \o QuoteUri(path)
    ELSE Raise

\* create_audio_object lines 87-89: audio_name
AudioName(track) ==
    ArtistTitle(track)
    \o (IF track.album # <<>> THEN <<" ", "(">> \o track.album \o <<")">> ELSE <<>>)

\* create_audio_object: workshop_url or local_url
CreateAudioObject(track, workshop_url, local_url) ==
    [name |-> AudioName(track),
     url |-> IF workshop_url # NoText THEN workshop_url ELSE local_url]

\* create_music_player lines 125-128: workshop_url of iteration i (a list
\* argument that is None or empty is the empty sequence: both are falsy)
WorkshopUrl(upload_results, i) ==
    IF /\ i <= Len(upload_results)
       /\ upload_results[i].success
       /\ upload_results[i].public_url # NoText
    THEN upload_results[i].public_url
    ELSE NoText

\* create_music_player lines 131-136: local_url of iteration i
LocalUrl(local_files, i) ==
    IF i <= Len(local_files) /\ LocalPathExists(local_files[i])
    THEN AsUri(local_files[i])
    ELSE NoText

\* create_music_player: the TTSMusicPlayer, or the exception of an iteration
CreateMusicPlayer(playlist, upload_results, local_files, player_name) ==
    LET n == Len(playlist.tracks)
    IN  IF \E i \in 1..n : LocalUrl(local_files, i) = Raise
        THEN [raised |-> TRUE, name |-> NoText, playlist |-> <<>>]
        ELSE [raised |-> FALSE,
              name |-> IF player_name = NoText THEN playlist.name ELSE player_name,
              playlist |->
                  [i \in 1..n |->
                      CreateAudioObject(playlist.tracks[i],
                                        WorkshopUrl(upload_results, i),
                                        LocalUrl(local_files, i))]]

\* one call of create_music_player on the drawn arguments
BuildPlayer ==
    /\ lastPlayer = None
    /\ lastPlayer' = CreateMusicPlayer(formatterInput.playlist,
                                       formatterInput.upload_results,
                                       formatterInput.local_files,
                                       formatterInput.player_name)
    /\ UNCHANGED <<formatterInput, notFmVars>>

\* a playlist, upload results and local files of independent lengths
FormatterInit ==
    /\ formatterInput \in
          [playlist : {[name |-> <<"P">>, tracks |-> t] :
                          t \in SeqsUpTo(Tracks, MaxTracks)},
           upload_results : SeqsUpTo(FormatterUploadResults, MaxTracks),
           local_files : SeqsUpTo(FormatterPaths, MaxTracks),
           player_name : {NoText, <<"N">>}]
    /\ lastPlayer = None

\* the formatter when only other components are exercised
FormatterIdle ==
    /\ formatterInput = None
    /\ lastPlayer = None

FormatterNext == BuildPlayer

(***************************************************************************)
(* JSON rendering of a player (generate_json_data, TTSMusicPlayer.to_dict) *)
(* and json.loads of the rendered text                                     *)
(***************************************************************************)

\* longest artist drawn for the rendering, and longest playlist rendered
MaxJsonNameLen == 2
MaxRenderTracks == 2

\* one character outside ASCII
EAcute == "e-acute"
Quote == "\""
Backslash == "\\"
Newline == "\n"

\* characters of the rendered names: a letter, a quote, a backslash, a
\* control character, a non-ASCII character
JsonChars == {"a", Quote, Backslash, Newline, EAcute}

\* mutant of JsonEscapeChar: characters are written as they are
JsonNoEscape(c) == <<c>>

\* json.dumps(ensure_ascii=False) on one character of a string
JsonEscapeChar(c) ==
    IF c = Quote THEN <<Backslash, Quote>>
    ELSE IF c = Backslash THEN <<Backslash, Backslash>>
    ELSE IF c = Newline THEN <<Backslash, "n">>
    ELSE <<c>>

RECURSIVE JsonEscape(_)
JsonEscape(s) ==
    IF s = <<>> THEN <<>> ELSE JsonEscapeChar(Head(s)) \o JsonEscape(Tail(s))

\* json.dumps of a str
JsonString(s) == <<Quote>> \o JsonEscape(s) \o <<Quote>>

\* one "key": value member as json.dumps(indent=2) writes it
JsonMember(key, valueText) == <<Newline, " ">> \o JsonString(key) \o <<":", " ">> \o valueText

RECURSIVE JsonJoin(_)
JsonJoin(texts) ==
    IF texts = <<>> THEN <<>>
    ELSE IF Len(texts) = 1 THEN texts[1]
    ELSE texts[1] \o <<",">> \o JsonJoin(Tail(texts))

\* json.dumps of asdict(TTSAudioObject)
JsonAudioObject(obj) ==
    <<"{">>
    \o JsonJoin(<<JsonMember(<<"n", "a", "m", "e">>, JsonString(obj.name)),
                  JsonMember(<<"u", "r", "l">>, JsonString(obj.url)),
                  JsonMember(<<"v", "o", "l", "u", "m", "e">>, <<"0", ".", "8">>),
                  JsonMember(<<"p", "i", "t", "c", "h">>, <<"1", ".", "0">>),
                  JsonMember(<<"l", "o", "o", "p">>, <<"f", "a", "l", "s", "e">>),
                  JsonMember(<<"l", "o", "o", "p", "s", "t", "a", "r", "t">>, <<"0", ".", "0">>)>>)
    \o <<Newline, "}">>

\* generate_json_data: json.dumps(music_player.to_dict(), indent=2,
\* ensure_ascii=False)
generate_json_data(music_player) ==
    <<"{">>
    \o JsonJoin(<<JsonMember(<<"n", "a", "m", "e">>, JsonString(music_player.name)),
                  JsonMember(<<"p", "l", "a", "y", "l", "i", "s", "t">>,
                      <<"[">>
                      \o JsonJoin([i \in 1..Len(music_player.playlist) |->
                                      <<Newline>> \o JsonAudioObject(music_player.playlist[i])])
                      \o <<Newline, "]">>),
                  JsonMember(<<"c", "u", "r", "r", "e", "n", "t", "T", "r", "a", "c", "k">>, <<"0">>),
                  JsonMember(<<"s", "h", "u", "f", "f", "l", "e">>, <<"f", "a", "l", "s", "e">>),
                  JsonMember(<<"r", "e", "p", "e", "a", "t">>, <<"f", "a", "l", "s", "e">>)>>)
    \o <<Newline, "}">>

\* the JSON scanner reading one character: the tokens so far, a string
\* token holding the decoded characters, any other token one character
\* outside strings
JsonScanChar(st, c) ==
    IF st.inString /\ st.escaped
    THEN [st EXCEPT !.escaped = FALSE,
                    !.cur = Append(@, IF c = "n" THEN Newline ELSE c)]
    ELSE IF st.inString /\ c = Backslash
    THEN [st EXCEPT !.escaped = TRUE]
    ELSE IF st.inString /\ c = Quote
    THEN [st EXCEPT !.inString = FALSE, !.cur = <<>>,
                    !.acc = Append(@, [str |-> TRUE, val |-> st.cur])]
    ELSE IF st.inString
    THEN [st EXCEPT !.cur = Append(@, c)]
    ELSE IF c = Quote
    THEN [st EXCEPT !.inString = TRUE]
    ELSE IF c \in {" ", Newline}
    THEN st
    ELSE [st EXCEPT !.acc = Append(@, [str |-> FALSE, val |-> <<c>>])]

\* the scanner run over text[lo..hi], left to right
RECURSIVE JsonScan(_, _, _, _)
JsonScan(text, lo, hi, st) ==
    IF lo > hi THEN st
    ELSE IF lo = hi THEN JsonScanChar(st, text[lo])
    ELSE LET mid == (lo + hi) \div 2
             left == JsonScan(text, lo, mid, st)
         IN  IF Len(left.acc) >= 0 THEN JsonScan(text, mid + 1, hi, left) ELSE left

\* the string values of the members named key, in document order
RECURSIVE MemberValues(_, _, _)
MemberValues(tokens, key, k) ==
    IF k + 2 > Len(tokens) THEN <<>>
    ELSE IF /\ tokens[k] = [str |-> TRUE, val |-> key]
            /\ tokens[k + 1] = [str |-> FALSE, val |-> <<":">>]
            /\ tokens[k + 2].str
    THEN <<tokens[k + 2].val>> \o MemberValues(tokens, key, k + 3)
    ELSE MemberValues(tokens, key, k + 1)

\* json.loads of the rendered text, reduced to the player's name and the
\* (name, url) pairs of its playlist
JsonLoads(text) ==
    LET tokens == JsonScan(text, 1, Len(text),
                           [inString |-> FALSE, escaped |-> FALSE,
                            cur |-> <<>>, acc |-> <<>>]).acc
        names == MemberValues(tokens, <<"n", "a", "m", "e">>, 1)
        urls == MemberValues(tokens, <<"u", "r", "l">>, 1)
    IN  [name |-> IF names = <<>> THEN NoText ELSE Head(names),
         names |-> IF names = <<>> THEN <<>> ELSE Tail(names),
         urls |-> urls]

\* tracks whose artist holds the characters that JSON escapes
RenderTracks ==
    {[title |-> <<"x">>, artist |-> a, album |-> <<>>, duration |-> 0] :
        a \in SeqsUpTo(JsonChars, MaxJsonNameLen)}

\* build the player from the collection and the URLs, render it, parse it
RenderAndParse ==
    /\ rendered = None
    /\ LET music_player == CreateMusicPlayer(renderInput.playlist,
                                             renderInput.upload_results,
                                             <<>>, NoText)
           text == generate_json_data(music_player)
       IN  rendered' = [music_player |-> music_player, text |-> text,
                        parsed |-> JsonLoads(text)]
    /\ UNCHANGED <<renderInput, notRnVars>>

\* a collection and the URL assignment of its tracks
RenderInit ==
    /\ renderInput \in
          [playlist : {[name |-> n, tracks |-> t] :
                          n \in {<<"P">>, <<Quote, "P">>},
                          t \in SeqsUpTo(RenderTracks, MaxRenderTracks)},
           upload_results :
               SeqsUpTo({[success |-> TRUE, public_url |-> UrlA],
                         [success |-> FALSE, public_url |-> NoText]},
                        MaxRenderTracks)]
    /\ rendered = None

\* the rendering when only other components are exercised
RenderIdle ==
    /\ renderInput = None
    /\ rendered = None

RenderNext == RenderAndParse

(***************************************************************************)
(* Channel classification (YouTubeService._is_official_channel)            *)
(***************************************************************************)

\* number of vocabulary pieces a drawn channel title is made of
MaxTitleParts == 2

UpperLetters == <<"A", "B", "C", "D", "E", "F", "G", "H", "I", "J", "K", "L", "M", "N", "O", "P", "Q", "R", "S", "T", "U", "V", "W", "X", "Y", "Z">>
LowerLetters == <<"a", "b", "c", "d", "e", "f", "g", "h", "i", "j", "k", "l", "m", "n", "o", "p", "q", "r", "s", "t", "u", "v", "w", "x", "y", "z">>

\* str.lower() on ASCII text
AsciiLower(s) ==
    [i \in 1..Len(s) |->
        IF \E k \in 1..Len(UpperLetters) : UpperLetters[k] = s[i]
        THEN LowerLetters[CHOOSE k \in 1..Len(UpperLetters) : UpperLetters[k] = s[i]]
        ELSE s[i]]

\* str.endswith
EndsWith(s, suffix) ==
    /\ Len(suffix) <= Len(s)
    /\ SubSeq(s, Len(s) - Len(suffix) + 1, Len(s)) = suffix

\* sub in s
Contains(s, sub) ==
    \E i \in 1..(Len(s) - Len(sub) + 1) : SubSeq(s, i, i + Len(sub) - 1) = sub

TopicSuffix == <<" ", "-", " ", "T", "o", "p", "i", "c">>

\* _is_official_channel lines 432-438: official_indicators
official_indicators ==
    <<<<"V", "E", "V", "O">>, <<"O", "f", "f", "i", "c", "i", "a", "l">>, <<"R", "e", "c", "o", "r", "d", "s">>, <<"M", "u", "s", "i", "c">>, <<"E", "n", "t", "e", "r", "t", "a", "i", "n", "m", "e", "n", "t">>>>

\* lines 440-443: indicator.lower() in channel_lower
HasOfficialIndicator(channel_title) ==
    \E k \in 1..Len(official_indicators) :
        Contains(AsciiLower(channel_title), AsciiLower(official_indicators[k]))

\* lines 447-450: the auto-generated markers looked for
AutoGeneratedMarkers ==
    {<<"-", " ", "A", "u", "t", "o", "-", "g", "e", "n", "e", "r", "a", "t", "e", "d", " ", "b", "y", " ", "Y", "o", "u", "T", "u", "b", "e">>, <<"A", "u", "t", "o", "-", "G", "e", "n", "e", "r", "a", "t", "e", "d">>}

\* mutant of IsTopicChannel: no channel counts as a Topic channel
NeverTopicChannel(channel_title) == FALSE

\* line 428: channel_title.endswith(" - Topic")
IsTopicChannel(channel_title) == EndsWith(channel_title, TopicSuffix)

\* YouTubeService._is_official_channel
IsOfficialChannel(channel_title) ==
    IF channel_title = <<>> THEN FALSE
    ELSE IF IsTopicChannel(channel_title) THEN FALSE
    ELSE IF HasOfficialIndicator(channel_title) THEN TRUE
    ELSE ~\E marker \in AutoGeneratedMarkers : Contains(channel_title, marker)

\* the pieces channel titles are drawn from
TitleParts ==
    {<<"Q", "u", "e", "e", "n">>, <<" ", "O", "f", "f", "i", "c", "i", "a", "l">>, <<"R", "a", "n", "d", "o", "m", " ", "U", "p", "l", "o", "a", "d", "s">>, <<"S", "o", "m", "e", "A", "r", "t", "i", "s", "t">>, TopicSuffix,
     <<" ", "M", "U", "S", "I", "C">>, <<" ", "A", "u", "t", "o", "-", "g", "e", "n", "e", "r", "a", "t", "e", "d">>, <<" ", "-", " ", "A", "u", "t", "o", "-", "g", "e", "n", "e", "r", "a", "t", "e", "d", " ", "b", "y", " ", "Y", "o", "u", "T", "u", "b", "e">>,
     <<" ", "A", "u", "t", "o", "-", "G", "e", "n", "e", "r", "a", "t", "e", "d">>}

RECURSIVE Concat(_)
Concat(parts) == IF parts = <<>> THEN <<>> ELSE Head(parts) \o Concat(Tail(parts))

ChannelTitles == {Concat(parts) : parts \in SeqsUpTo(TitleParts, MaxTitleParts)}

\* one _is_official_channel call
ClassifyChannel ==
    /\ classified = None
    /\ classified' = [official |-> IsOfficialChannel(channel)]
    /\ UNCHANGED <<channel, notChVars>>

ChannelInit ==
    /\ channel \in ChannelTitles
    /\ classified = None

\* the classification when only other components are exercised
ChannelIdle ==
    /\ channel = <<>>
    /\ classified = None

ChannelNext == ClassifyChannel

(***************************************************************************)
(* Adapter listing and search operations (youtube_service.py,              *)
(* spotify_service.py, lastfm_service.py)                                  *)
(***************************************************************************)

\* most playlists (and tracks) an upstream account holds
MaxUpstream == 5

\* items per upstream page (the adapters ask for 50 or 100)
PageSize == 2

Min(a, b) == IF a < b THEN a ELSE b

\* how an upstream request can go wrong: an HTTP error status, a transport
\* exception, a body without the expected keys
Faults == {"none", "http", "network", "malformed"}

\* the item numbers of one upstream page: up to size items after offset
RemotePage(count, offset, size) ==
    [k \in 1..Min(size, count - offset) |-> offset + k]

\* PlaylistInfo built from item k of a response (playlist_type, service_id,
\* and whether the name was read from the item)
PlaylistEntry(playlist_type, k) ==
    [playlist_type |-> playlist_type, service_id |-> k, named |-> TRUE]

\* an exception leaving the operation
ListingRaised(error) == [raised |-> TRUE, error |-> error, returned |-> <<>>]

ListingReturned(playlists) == [raised |-> FALSE, error |-> "", returned |-> playlists]

\* get_user_playlists lines 114-133: Liked Videos and Watch Later
special_playlists ==
    <<[playlist_type |-> "YOUTUBE_LIKED_VIDEOS", service_id |-> 0, named |-> TRUE],
      [playlist_type |-> "YOUTUBE_WATCH_LATER", service_id |-> 0, named |-> TRUE]>>

\* YouTubeService.get_user_playlists: one playlists().list request with
\* maxResults=50; item fields are read with item[...]
YouTubeGetUserPlaylists(r, fault) ==
    IF ~r.youtube THEN ListingRaised("YouTube API not initialized")
    ELSE IF ~r.channel_id THEN ListingRaised("Channel ID is required")
    ELSE IF fault = "http" THEN ListingRaised("YouTube API error")
    ELSE IF fault = "network" THEN ListingRaised("transport error")
    ELSE IF fault = "malformed" THEN ListingReturned(special_playlists)
    ELSE LET page == RemotePage(r.count, 0, PageSize)
         IN  IF \E i \in 1..Len(page) : page[i] = r.malformed
             THEN ListingRaised("KeyError")
             ELSE ListingReturned(
                      [i \in 1..Len(page) |-> PlaylistEntry("YOUTUBE_PLAYLIST", page[i])]
                      \o special_playlists)

\* the channel title of search hit k
ItemChannel(k) ==
    IF k % 2 = 0 THEN <<"Q", "u", "e", "e", "n", " ", "O", "f", "f", "i", "c", "i", "a", "l">> ELSE <<"S", "o", "m", "e", "A", "r", "t", "i", "s", "t", " ", "-", " ", "T", "o", "p", "i", "c">>

OfficialItem(k) == IsOfficialChannel(ItemChannel(k))

OtherItem(k) == ~IsOfficialChannel(ItemChannel(k))

\* YouTubeService.search_playlists: one search().list request with
\* maxResults=min(limit * 2, 50); official channels first, then [:limit]
YouTubeSearchPlaylists(r, fault, limit) ==
    IF ~r.youtube THEN ListingRaised("YouTube API not initialized")
    ELSE IF fault = "http" THEN ListingRaised("YouTube API error")
    ELSE IF fault = "network" THEN ListingRaised("transport error")
    ELSE IF fault = "malformed" THEN ListingRaised("KeyError")
    ELSE LET page == RemotePage(r.count, 0, Min(limit * 2, PageSize))
             preferred == SelectSeq(page, OfficialItem) \o SelectSeq(page, OtherItem)
         IN  IF \E i \in 1..Len(page) : page[i] = r.malformed
             THEN ListingRaised("KeyError")
             ELSE ListingReturned(
                      [i \in 1..Min(limit, Len(preferred)) |->
                          PlaylistEntry("YOUTUBE_PLAYLIST", preferred[i])])

\* the loop over response["items"] inside try/except: the entries built
\* before the first item that lacks a field
RECURSIVE UntilMalformed(_, _)
UntilMalformed(page, malformed) ==
    IF page = <<>> \/ Head(page) = malformed THEN <<>>
    ELSE <<PlaylistEntry("SPOTIFY_PLAYLIST", Head(page))>>
         \o UntilMalformed(Tail(page), malformed)

\* SpotifyService.get_user_playlists / _get_user_playlists: one request with
\* limit 50; _make_request returns None on any failure
SpotifyGetUserPlaylists(r, fault) ==
    IF ~r.user_id THEN ListingReturned(<<>>)
    ELSE IF fault # "none" THEN ListingReturned(<<>>)
    ELSE ListingReturned(UntilMalformed(RemotePage(r.count, 0, PageSize), r.malformed))

\* SpotifyService.search_playlists: one request with limit min(limit, 50)
SpotifySearchPlaylists(r, fault, limit) ==
    IF fault # "none" THEN ListingReturned(<<>>)
    ELSE ListingReturned(
             UntilMalformed(RemotePage(r.count, 0, Min(limit, PageSize)), r.malformed))

\* LastFMService.get_user_playlists: three fixed collections, no request
LastFMGetUserPlaylists ==
    ListingReturned(<<[playlist_type |-> "LASTFM_TOP_TRACKS", service_id |-> 0, named |-> TRUE],
                      [playlist_type |-> "LASTFM_LOVED_TRACKS", service_id |-> 0, named |-> TRUE],
                      [playlist_type |-> "LASTFM_RECENT_TRACKS", service_id |-> 0, named |-> TRUE]>>)

\* LastFMService.search_playlists
LastFMSearchPlaylists == ListingReturned(<<>>)

\* the record of one listing or search call
Listed(service, op, fault, limit, result) ==
    [service |-> service, op |-> op, fault |-> fault, limit |-> limit,
     result |-> result]

ListYouTube ==
    \E fault \in Faults :
        /\ lastListing' =
              Listed("youtube", "get_user_playlists", fault, 0,
                      YouTubeGetUserPlaylists(remote, fault))
        /\ UNCHANGED <<remote, notLsVars>>

SearchYouTube ==
    \E fault \in Faults, limit \in 1..MaxUpstream :
        /\ lastListing' =
              Listed("youtube", "search_playlists", fault, limit,
                      YouTubeSearchPlaylists(remote, fault, limit))
        /\ UNCHANGED <<remote, notLsVars>>

ListSpotify ==
    \E fault \in Faults :
        /\ lastListing' =
              Listed("spotify", "get_user_playlists", fault, 0,
                      SpotifyGetUserPlaylists(remote, fault))
        /\ UNCHANGED <<remote, notLsVars>>

SearchSpotify ==
    \E fault \in Faults, limit \in 1..MaxUpstream :
        /\ lastListing' =
              Listed("spotify", "search_playlists", fault, limit,
                      SpotifySearchPlaylists(remote, fault, limit))
        /\ UNCHANGED <<remote, notLsVars>>

ListLastFM ==
    /\ lastListing' =
          Listed("lastfm", "get_user_playlists", "none", 0, LastFMGetUserPlaylists)
    /\ UNCHANGED <<remote, notLsVars>>

SearchLastFM ==
    \E limit \in 1..MaxUpstream :
        /\ lastListing' =
              Listed("lastfm", "search_playlists", "none", limit, LastFMSearchPlaylists)
        /\ UNCHANGED <<remote, notLsVars>>

\* the adapters as constructed (client built or not, identifiers given or
\* not) and the upstream account: count playlists, item number malformed
\* lacking a field (0: every item is complete)
ListingInit ==
    /\ remote \in {r \in [youtube : BOOLEAN, channel_id : BOOLEAN, user_id : BOOLEAN,
                          count : 0..MaxUpstream, malformed : 0..MaxUpstream] :
                      r.malformed <= r.count}
    /\ lastListing = None

\* the adapters when only other components are exercised
ListingIdle ==
    /\ remote = None
    /\ lastListing = None

ListingNext ==
    \/ ListYouTube
    \/ SearchYouTube
    \/ ListSpotify
    \/ SearchSpotify
    \/ ListLastFM
    \/ SearchLastFM

(***************************************************************************)
(* Adapter get_playlist_tracks operations                                  *)
(***************************************************************************)

\* Track built from item k of a response; named is FALSE when the name was
\* missing and the fallback was substituted
TrackEntry(k, named) == [service_id |-> k, named |-> named]

\* an exception leaving get_playlist_tracks
ResolveRaised(error) ==
    [raised |-> TRUE, error |-> error, name |-> "", tracks |-> <<>>]

\* the PlaylistInfo returned
Resolved(name, tracks) ==
    [raised |-> FALSE, error |-> "", name |-> name, tracks |-> tracks]

\* the items the server puts in the page after offset when asked for
\* requested items: a server that honours the request sends at most that
\* many, another one sends its own page size
ServerPage(lib, offset, requested) ==
    RemotePage(lib.count, offset,
               IF lib.honours THEN Min(requested, PageSize) ELSE PageSize)

\* get_playlist_tracks lines 172-232: the paging loop of the YouTube
\* adapter from offset on; item fields are read with item[...]
RECURSIVE YouTubePages(_, _, _, _)
YouTubePages(lib, max_results, tracks, offset) ==
    IF ~(Len(tracks) < max_results) THEN [raised |-> FALSE, tracks |-> tracks]
    ELSE LET page == ServerPage(lib, offset, Min(PageSize, max_results - Len(tracks)))
             more == tracks \o [i \in 1..Len(page) |-> TrackEntry(page[i], TRUE)]
         IN  IF \E i \in 1..Len(page) : page[i] = lib.malformed
             THEN [raised |-> TRUE, tracks |-> <<>>]
             ELSE IF offset + Len(page) < lib.count
             THEN YouTubePages(lib, max_results, more, offset + Len(page))
             ELSE [raised |-> FALSE, tracks |-> more]

\* YouTubeService.get_playlist_tracks
YouTubeGetPlaylistTracks(lib, fault, max_results) ==
    IF ~lib.youtube THEN ResolveRaised("YouTube API not initialized")
    ELSE IF fault = "http" THEN ResolveRaised("YouTube API error")
    ELSE IF fault = "network" THEN ResolveRaised("transport error")
    ELSE IF fault = "malformed" THEN ResolveRaised("KeyError")
    ELSE IF ~lib.exists THEN ResolveRaised("Playlist not found")
    ELSE LET loop == YouTubePages(lib, max_results, <<>>, 0)
         IN  IF loop.raised THEN ResolveRaised("KeyError")
             ELSE Resolved("title", loop.tracks)

\* the Track loop of the Spotify adapter inside try/except: the tracks
\* built before the first item whose artist lacks a name
RECURSIVE TracksUntilMalformed(_, _)
TracksUntilMalformed(items, malformed) ==
    IF items = <<>> \/ Head(items) = malformed THEN <<>>
    ELSE <<TrackEntry(Head(items), TRUE)>>
         \o TracksUntilMalformed(Tail(items), malformed)

\* SpotifyService.get_playlist_tracks: "next" is followed until absent;
\* keyword arguments are not read; every exception is caught
SpotifyGetPlaylistTracks(lib, fault) ==
    IF fault # "none" \/ ~lib.exists
    THEN Resolved("Spotify Playlist", <<>>)
    ELSE Resolved("name",
                  TracksUntilMalformed(RemotePage(lib.count, 0, lib.count),
                                       lib.malformed))

\* collection identifiers handed to the Last.fm adapter
LastFMCollections == {"top_tracks", "loved_tracks", "recent_tracks"}

\* the name of the PlaylistInfo per collection
LastFMName(playlist_id) ==
    CASE playlist_id = "top_tracks" -> "Top Tracks (overall)"
      [] playlist_id = "loved_tracks" -> "Loved Tracks"
      [] OTHER -> "Recent Tracks"

\* _get_user_top_tracks / _get_user_loved_tracks / _get_user_recent_tracks:
\* one request carrying limit; every item of the answer becomes a Track,
\* missing fields replaced by ''
LastFMTracks(lib, limit) ==
    LET items == RemotePage(lib.count, 0,
                            IF lib.honours THEN limit ELSE lib.count)
    IN  [i \in 1..Len(items) |-> TrackEntry(items[i], items[i] # lib.malformed)]

\* LastFMService.get_playlist_tracks
LastFMGetPlaylistTracks(lib, playlist_id, fault, limit) ==
    IF playlist_id \notin LastFMCollections
    THEN ResolveRaised("Unknown playlist ID")
    ELSE IF ~lib.username THEN ResolveRaised("Username is required")
    ELSE IF fault \in {"http", "network"} THEN ResolveRaised("Network error")
    ELSE IF fault = "malformed" THEN Resolved(LastFMName(playlist_id), <<>>)
    ELSE Resolved(LastFMName(playlist_id), LastFMTracks(lib, limit))

\* get_playlist_tracks of the adapter of a service; cap is max_results for
\* YouTube and limit for Last.fm
GetPlaylistTracks(service, lib, playlist_id, fault, cap) ==
    CASE service = "youtube" -> YouTubeGetPlaylistTracks(lib, fault, cap)
      [] service = "spotify" -> SpotifyGetPlaylistTracks(lib, fault)
      [] OTHER -> LastFMGetPlaylistTracks(lib, playlist_id, fault, cap)

ResolveCall(service, playlist_id, fault, cap) ==
    [service |-> service, playlist_id |-> playlist_id, fault |-> fault,
     cap |-> cap,
     result |-> GetPlaylistTracks(service, library, playlist_id, fault, cap)]

ResolveYouTube ==
    \E fault \in Faults, max_results \in 1..MaxUpstream :
        /\ lastResolve' = ResolveCall("youtube", "PL", fault, max_results)
        /\ UNCHANGED <<library, notRsVars>>

ResolveSpotify ==
    \E fault \in Faults, limit \in 1..MaxUpstream :
        /\ lastResolve' = ResolveCall("spotify", "PL", fault, limit)
        /\ UNCHANGED <<library, notRsVars>>

ResolveLastFM ==
    \E playlist_id \in LastFMCollections \cup {"unknown"},
       fault \in Faults, limit \in 1..MaxUpstream :
        /\ lastResolve' = ResolveCall("lastfm", playlist_id, fault, limit)
        /\ UNCHANGED <<library, notRsVars>>

\* the adapters as constructed and the upstream playlist: whether it
\* exists, its count tracks, item number malformed lacking a field (0:
\* none), and whether the server honours the requested page size
ResolveInit ==
    /\ library \in {l \in [youtube : BOOLEAN, username : BOOLEAN, exists : BOOLEAN,
                           honours : BOOLEAN, count : 0..MaxUpstream,
                           malformed : 0..MaxUpstream] :
                       l.malformed <= l.count}
    /\ lastResolve = None

\* the adapters when only other components are exercised
ResolveIdle ==
    /\ library = None
    /\ lastResolve = None

ResolveNext ==
    \/ ResolveYouTube
    \/ ResolveSpotify
    \/ ResolveLastFM

(***************************************************************************)
(* Video-title parsing (youtube_service.py, _clean_artist_name and         *)
(* _parse_track_from_title)                                                *)
(***************************************************************************)

MaxVideoTitleParts == 3

\* the characters of the class [-–—]
Dashes == {"-", "en-dash", "em-dash"}

\* the first index from i on that holds no whitespace, Len(text) + 1 when
\* there is none: where a greedy \s* starting at i stops
SkipWhitespace(text, i) ==
    CHOOSE k \in i..(Len(text) + 1) :
        /\ k = Len(text) + 1 \/ text[k] \notin Whitespace
        /\ \A l \in i..(k - 1) : text[l] \in Whitespace

\* r matches \s*\(.*\) (or \s*\[.*\]) as a whole
Bracketed(r, open, close) ==
    LET t == LStrip(r)
    IN  Len(t) >= 2 /\ t[1] = open /\ t[Len(t)] = close

\* r matches (?:\s*\(.*\))?(?:\s*\[.*\])?$ as a whole
TailMatches(r) ==
    \/ r = <<>>
    \/ Bracketed(r, "(", ")")
    \/ Bracketed(r, "[", "]")
    \/ \E k \in 1..(Len(r) - 1) :
           /\ Bracketed(SubSeq(r, 1, k), "(", ")")
           /\ Bracketed(SubSeq(r, k + 1, Len(r)), "[", "]")

\* lines 368-377: the separators of the four patterns, in list order; lead
\* and trail tell whether whitespace is absent, optional or required
patterns ==
    <<[lead |-> "any",  mark |-> <<Dashes>>,       trail |-> "any"],
      [lead |-> "some", mark |-> <<{"b"}, {"y"}>>, trail |-> "some"],
      [lead |-> "none", mark |-> <<{":"}>>,        trail |-> "any"],
      [lead |-> "any",  mark |-> <<{"|"}>>,        trail |-> "any"]>>

\* the indices at which the second group may start when the separator sep
\* starts at index i (re.IGNORECASE: the mark is compared in lower case)
SeparatorEnds(text, i, sep) ==
    LET d == IF sep.lead = "none" THEN i ELSE SkipWhitespace(text, i)
        m == d + Len(sep.mark)
    IN  IF /\ sep.lead = "some" => d > i
           /\ m - 1 <= Len(text)
           /\ \A k \in 1..Len(sep.mark) :
                  AsciiLower(<<text[d + k - 1]>>)[1] \in sep.mark[k]
        THEN {j \in m..SkipWhitespace(text, m) : sep.trail = "some" => j > m}
        ELSE {}

NoMatch == [matched |-> FALSE, part1 |-> <<>>, part2 |-> <<>>]

\* the least and the greatest element of a non-empty set of indices
Least(S) == CHOOSE x \in S : \A y \in S : x <= y
Greatest(S) == CHOOSE x \in S : \A y \in S : y <= x

\* the starts of a second group of at least one character after a first
\* group of n characters
GroupStarts(text, n, sep) ==
    {j \in SeparatorEnds(text, n + 1, sep) : j <= Len(text)}

\* the ends of a second group starting at j that leave a matching tail
GroupEnds(text, j) ==
    {e \in j..Len(text) : TailMatches(SubSeq(text, e + 1, Len(text)))}

\* the groups, the first having n characters and the second starting at j
Groups(text, n, j) ==
    [matched |-> TRUE, part1 |-> SubSeq(text, 1, n),
     part2 |-> SubSeq(text, j, Least(GroupEnds(text, j)))]

\* the match whose first group has n characters: the longest separator
MatchFrom(text, n, sep) == Groups(text, n, Greatest(GroupStarts(text, n, sep)))

\* the match given the lengths the first group can have: the shortest
MatchAmong(text, firsts, sep) ==
    IF firsts = {} THEN NoMatch ELSE MatchFrom(text, Least(firsts), sep)

\* re.match(r'^(.+?)<sep>(.+?)(?:\s*\(.*\))?(?:\s*\[.*\])?$', text): the
\* shortest first group, then the longest separator that leaves a character
\* for the second group, then the shortest second group
Match(text, sep) ==
    MatchAmong(text, {n \in 1..Len(text) : GroupStarts(text, n, sep) # {}}, sep)

\* the indices at which <head>.*?<close> matches
HeadPositions(text, head, close) ==
    {p \in 1..(Len(text) - Len(head) + 1) :
        /\ AsciiLower(SubSeq(text, p, p + Len(head) - 1)) = AsciiLower(head)
        /\ close # <<>> =>
              \E q \in (p + Len(head))..Len(text) : text[q] = close[1]}

\* the start of the whitespace run that ends just before index p
RunStart(text, p) ==
    CHOOSE x \in 1..p :
        /\ \A l \in x..(p - 1) : text[l] \in Whitespace
        /\ x = 1 \/ text[x - 1] \notin Whitespace

\* the last index of the match whose .*? starts at index from
LazyEnd(text, from, close) ==
    IF close = <<>> THEN from - 1
    ELSE Least({q \in from..Len(text) : text[q] = close[1]})

\* re.sub(r'\s*<head>.*?<close>', '', text, flags=re.IGNORECASE); close is
\* empty for a pattern without .*?
RECURSIVE RegexSub(_, _, _)
RegexCut(text, head, close, p) ==
    SubSeq(text, 1, RunStart(text, p) - 1)
    \o RegexSub(SubSeq(text, LazyEnd(text, p + Len(head), close) + 1, Len(text)),
                head, close)

RegexSubAt(text, head, close, heads) ==
    IF heads = {} THEN text ELSE RegexCut(text, head, close, Least(heads))

RegexSub(text, head, close) ==
    RegexSubAt(text, head, close, HeadPositions(text, head, close))

AutoGeneratedSuffix == <<" ", "-", " ", "A", "u", "t", "o", "-", "g", "e", "n", "e", "r", "a", "t", "e", "d", " ", "b", "y", " ", "Y", "o", "u", "T", "u", "b", "e">>

\* lines 348-350: one suffix of the loop
RemoveSuffix(cleaned, suffix) ==
    IF EndsWith(cleaned, suffix)
    THEN Strip(SubSeq(cleaned, 1, Len(cleaned) - Len(suffix)))
    ELSE cleaned

\* YouTubeService._clean_artist_name
clean_artist_name(channel_title) ==
    IF channel_title = <<>> THEN <<>>
    ELSE RemoveSuffix(RemoveSuffix(channel_title, TopicSuffix), AutoGeneratedSuffix)

\* lines 394-395 and 408-409
RemoveOfficial(title) ==
    RegexSub(RegexSub(title, <<"(", "O", "f", "f", "i", "c", "i", "a", "l">>, <<")">>), <<"[", "O", "f", "f", "i", "c", "i", "a", "l">>, <<"]">>)

\* lines 394-399
CleanParsedTitle(title) ==
    Strip(RegexSub(RegexSub(RegexSub(RemoveOfficial(title),
                                     <<"(", "M", "u", "s", "i", "c", " ", "V", "i", "d", "e", "o", ")">>, <<>>),
                            <<"(", "L", "y", "r", "i", "c", " ", "V", "i", "d", "e", "o", ")">>, <<>>),
                   <<"(", "A", "u", "d", "i", "o", ")">>, <<>>))

\* mutant of SwapsOperands: no pattern swaps its groups
NeverSwaps(k) == FALSE

\* line 385: "by" in pattern
SwapsOperands(k) == k = 2

\* lines 382-401: the artist and title made of the groups of a match
ParsedGroups(m, swap) ==
    [artist |-> clean_artist_name(Strip(IF swap THEN m.part2 ELSE m.part1)),
     title |-> CleanParsedTitle(Strip(IF swap THEN m.part1 ELSE m.part2))]

\* the index of the first pattern that matches, 0 when none does
FirstPattern(video_title) ==
    Least({k \in 1..Len(patterns) : Match(video_title, patterns[k]).matched}
          \cup {Len(patterns) + 1}) % (Len(patterns) + 1)

\* YouTubeService._parse_track_from_title
parse_track_from_title(video_title, channel_title) ==
    IF FirstPattern(video_title) # 0
    THEN ParsedGroups(Match(video_title, patterns[FirstPattern(video_title)]),
                      SwapsOperands(FirstPattern(video_title)))
    ELSE [artist |-> clean_artist_name(channel_title),
          title |-> Strip(RemoveOfficial(video_title))]

\* the pieces video titles are drawn from
VideoTitleParts ==
    {<<"A">>, <<"S">>, <<" ">>, <<" ", "-", " ">>, <<"-">>, <<" ", "b", "y", " ">>, <<":", " ">>, <<" ", "|", " ">>,
     <<" ", "(", "O", "f", "f", "i", "c", "i", "a", "l", " ", "V", "i", "d", "e", "o", ")">>, <<" ", "[", "O", "f", "f", "i", "c", "i", "a", "l", " ", "A", "u", "d", "i", "o", "]">>, <<" ", "(", "L", "i", "v", "e", ")">>, <<"(", "A", "u", "d", "i", "o", ")">>}

ArtistSongOfficialVideo == <<"A", "r", "t", "i", "s", "t", " ", "-", " ", "S", "o", "n", "g", " ", "(", "O", "f", "f", "i", "c", "i", "a", "l", " ", "V", "i", "d", "e", "o", ")">>
LiveShowHighlights == <<"L", "i", "v", "e", " ", "S", "h", "o", "w", " ", "H", "i", "g", "h", "l", "i", "g", "h", "t", "s">>
ArtistTopic == <<"A", "r", "t", "i", "s", "t", " ", "-", " ", "T", "o", "p", "i", "c">>
SomeChannel == <<"S", "o", "m", "e", " ", "C", "h", "a", "n", "n", "e", "l">>

VideoTitles ==
    {Concat(parts) : parts \in SeqsUpTo(VideoTitleParts, MaxVideoTitleParts)}
    \cup {ArtistSongOfficialVideo, LiveShowHighlights}

\* one _parse_track_from_title call
ParseTitle ==
    /\ parsedTrack = None
    /\ parsedTrack' = parse_track_from_title(video.title, video.channel)
    /\ UNCHANGED <<video, notPtVars>>

ParseInit ==
    /\ video \in [title : VideoTitles, channel : {ArtistTopic, SomeChannel}]
    /\ parsedTrack = None

\* the parser when only other components are exercised
ParseIdle ==
    /\ video = None
    /\ parsedTrack = None

ParseNext == ParseTitle

(***************************************************************************)
(* Topic-channel follow-up (youtube_service.py, get_playlist_tracks lines  *)
(* 200-228 and _search_for_official_version)                               *)
(***************************************************************************)

MaxSearchResults == 3

\* the videos a follow-up search may return: from an official channel, a
\* Topic channel and an auto-generated channel
OfficialVideo == [title |-> <<"A", " ", "-", " ", "S", " ", "(", "O", "f", "f", "i", "c", "i", "a", "l", " ", "V", "i", "d", "e", "o", ")">>, channel |-> <<"A", "V", "E", "V", "O">>]
TopicVideo == [title |-> <<"S", "2">>, channel |-> <<"B", " ", "-", " ", "T", "o", "p", "i", "c">>]
AutoVideo == [title |-> <<"C", " ", "-", " ", "S", "3">>, channel |-> <<"M", "i", "x", " ", "-", " ", "A", "u", "t", "o", "-", "g", "e", "n", "e", "r", "a", "t", "e", "d", " ", "b", "y", " ", "Y", "o", "u", "T", "u", "b", "e">>]
SearchVideos == {OfficialVideo, TopicVideo, AutoVideo}

\* what search().list(...).execute() does: raises, or answers with items
SearchOutcomes ==
    {[made |-> TRUE, raised |-> TRUE, items |-> <<>>]}
    \cup {[made |-> TRUE, raised |-> FALSE, items |-> q] :
             q \in SeqsUpTo(SearchVideos, MaxSearchResults)}

\* the search was not made
NotSearched == [made |-> FALSE, raised |-> FALSE, items |-> <<>>]

\* _search_for_official_version returning None
NoVideo == [title |-> <<>>, channel |-> <<>>]

\* lines 480-494: official_videos + other_videos + topic_videos
preferred_order(videos) ==
    SelectSeq(videos, LAMBDA v : IsOfficialChannel(v.channel))
    \o SelectSeq(videos, LAMBDA v : /\ ~IsOfficialChannel(v.channel)
                                    /\ ~EndsWith(v.channel, TopicSuffix))
    \o SelectSeq(videos, LAMBDA v : /\ ~IsOfficialChannel(v.channel)
                                    /\ EndsWith(v.channel, TopicSuffix))

\* YouTubeService._search_for_official_version on an initialised client:
\* every exception is caught and None returned
search_for_official_version(searched) ==
    IF searched.raised THEN NoVideo
    ELSE IF preferred_order(searched.items) # <<>>
    THEN Head(preferred_order(searched.items))
    ELSE NoVideo

\* lines 200-228: the artist and title of the Track built from an item,
\* official_version being what the follow-up search returns for it
TrackOfItem(entry, official_version) ==
    IF /\ entry.channel # <<>>
       /\ EndsWith(entry.channel, TopicSuffix)
       /\ official_version # NoVideo
    THEN parse_track_from_title(official_version.title, official_version.channel)
    ELSE parse_track_from_title(entry.title, entry.channel)

\* one pass of the item loop, for an item of a Topic channel
BuildTopicTrack ==
    /\ itemTrack = None
    /\ EndsWith(playlistItem.channel, TopicSuffix)
    /\ \E searched \in SearchOutcomes :
           \E official_version \in {search_for_official_version(searched)} :
               itemTrack' = [searched |-> searched,
                             track |-> TrackOfItem(playlistItem, official_version)]
    /\ UNCHANGED <<playlistItem, notFuVars>>

\* one pass of the item loop, for an item of another channel: no search
BuildPlainTrack ==
    /\ itemTrack = None
    /\ ~EndsWith(playlistItem.channel, TopicSuffix)
    /\ itemTrack' = [searched |-> NotSearched,
                     track |-> TrackOfItem(playlistItem, NoVideo)]
    /\ UNCHANGED <<playlistItem, notFuVars>>

FollowUpInit ==
    /\ playlistItem \in [title : {<<"S">>, <<"A", " ", "-", " ", "S">>, <<"S", " ", "b", "y", " ", "A">>},
                         channel : {<<"A", " ", "-", " ", "T", "o", "p", "i", "c">>, <<"S", "o", "m", "e", " ", "C", "h", "a", "n", "n", "e", "l">>}]
    /\ itemTrack = None

\* the item loop when only other components are exercised
FollowUpIdle ==
    /\ playlistItem = None
    /\ itemTrack = None

FollowUpNext ==
    \/ BuildTopicTrack
    \/ BuildPlainTrack

(***************************************************************************)
(* Collections and their lazy load (base_service.py PlaylistInfo,          *)
(* playlist_tab.py _on_playlist_selected, _fetch_lastfm_collections and    *)
(* _load_tracks)                                                           *)
(***************************************************************************)

\* max_results / limit when the caller passes none: 50, the size of one
\* upstream page
DefaultCap == PageSize

\* PlaylistInfo.__post_init__
post_init(total_tracks, tracks) ==
    IF total_tracks = 0 THEN Len(tracks) ELSE total_tracks

\* a PlaylistInfo as its constructor leaves it
NewPlaylistInfo(service, service_id, tracks, total_tracks, populated) ==
    [service |-> service, service_id |-> service_id, tracks |-> tracks,
     total_tracks |-> post_init(total_tracks, tracks), populated |-> populated]

\* the placeholders listed by get_user_playlists: a YouTube playlist
\* (total_tracks = itemCount), a YouTube special playlist and the Last.fm
\* collections (no total_tracks), a Spotify playlist (tracks.total)
Placeholder(service, service_id) ==
    NewPlaylistInfo(service, service_id, <<>>,
                    IF service_id = "PL" THEN library.count ELSE 0, FALSE)

\* the PlaylistInfo a get_playlist_tracks result carries
PlaylistInfoOf(service, service_id, result) ==
    NewPlaylistInfo(service, service_id, result.tracks,
                    IF service = "youtube" THEN Len(result.tracks) ELSE 0, TRUE)

\* _on_playlist_selected on a playlist listed by get_user_playlists
SelectPlaceholder ==
    \E service \in {"youtube", "spotify"}, service_id \in {"PL", "LL"} :
        /\ service = "spotify" => service_id = "PL"
        /\ selected_playlist' = Placeholder(service, service_id)
        /\ UNCHANGED notCoVars

\* _fetch_lastfm_collections: the collection is resolved at once
FetchLastFMCollection ==
    \E playlist_id \in LastFMCollections, limit \in 1..MaxUpstream :
        LET result == LastFMGetPlaylistTracks(library, playlist_id, "none", limit)
        IN  /\ ~result.raised
            /\ selected_playlist' = PlaylistInfoOf("lastfm", playlist_id, result)
            /\ UNCHANGED notCoVars

\* _load_tracks, load_worker: the tracks of the selected playlist are
\* overwritten with those of get_playlist_tracks; an exception is reported
\* and leaves the playlist as it is
LoadTracks ==
    /\ selected_playlist # None
    /\ \E fault \in Faults :
        LET result == GetPlaylistTracks(selected_playlist.service, library,
                                        selected_playlist.service_id, fault,
                                        DefaultCap)
        IN  selected_playlist' =
                IF result.raised THEN selected_playlist
                ELSE [selected_playlist EXCEPT !.tracks = result.tracks,
                                               !.populated = TRUE]
    /\ UNCHANGED notCoVars

\* no playlist is selected
CollectionIdle == selected_playlist = None

CollectionNext ==
    \/ SelectPlaceholder
    \/ FetchLastFMCollection
    \/ LoadTracks

(***************************************************************************)
(* The GUI pipeline (main_window.py _start_download, _start_upload,        *)
(* _generate_tts_code): worker threads over the attributes of the window   *)
(***************************************************************************)

\* worker threads alive at the same time in the model
MaxThreads == 2

\* the tracks of the selected playlist, by position
GuiTracks == 1..MaxTracks

\* a thread that runs download_worker: results holds the DownloadResults of
\* the downloader so far
DownloadWorker == [kind |-> "download", pc |-> "loop", results |-> <<>>,
                   todo |-> <<>>]

\* a thread that runs upload_worker: todo holds successful_downloads from
\* the loop index on
UploadWorker == [kind |-> "upload", pc |-> "start", results |-> <<>>,
                 todo |-> <<>>]

\* the threads without the k-th, which returned
OtherThreads(k) == SubSeq(threads, 1, k - 1) \o SubSeq(threads, k + 1, Len(threads))

\* [result for result in self.download_results if result.success], as the
\* positions of the tracks
RECURSIVE SuccessfulFrom(_, _)
SuccessfulFrom(download_results, i) ==
    IF i > Len(download_results) THEN <<>>
    ELSE (IF download_results[i] THEN <<i>> ELSE <<>>)
         \o SuccessfulFrom(download_results, i + 1)

successful_downloads == SuccessfulFrom(self_download_results, 1)

\* _start_download: threading.Thread(target=download_worker).start()
StartDownload ==
    /\ Len(threads) < MaxThreads
    /\ threads' = Append(threads, DownloadWorker)
    /\ UNCHANGED <<self_download_results, self_upload_results, download_dir,
                   built_player, notGuiVars>>

\* download_worker, one track of downloader.download_playlist: the track is
\* acquired into the playlist folder or fails
DownloadTrack(k) ==
    /\ threads[k].kind = "download"
    /\ Len(threads[k].results) < MaxTracks
    /\ \E success \in BOOLEAN :
        /\ threads' = [threads EXCEPT ![k].results = Append(@, success)]
        /\ download_dir' = IF success
                           THEN download_dir \cup {Len(threads[k].results) + 1}
                           ELSE download_dir
    /\ UNCHANGED <<self_download_results, self_upload_results, built_player,
                   notGuiVars>>

\* download_worker: self.download_results = downloader.download_playlist(..)
DownloadDone(k) ==
    /\ threads[k].kind = "download"
    /\ Len(threads[k].results) = MaxTracks
    /\ self_download_results' = threads[k].results
    /\ threads' = OtherThreads(k)
    /\ UNCHANGED <<self_upload_results, download_dir, built_player, notGuiVars>>

\* _start_upload: threading.Thread(target=upload_worker).start()
StartUpload ==
    /\ Len(threads) < MaxThreads
    /\ threads' = Append(threads, UploadWorker)
    /\ UNCHANGED <<self_download_results, self_upload_results, download_dir,
                   built_player, notGuiVars>>

\* upload_worker up to the loop: it returns when there is nothing to upload,
\* otherwise self.upload_results = []
UploadBegin(k) ==
    /\ threads[k].kind = "upload"
    /\ threads[k].pc = "start"
    /\ IF successful_downloads = <<>>
       THEN /\ threads' = OtherThreads(k)
            /\ UNCHANGED self_upload_results
       ELSE /\ threads' = [threads EXCEPT ![k].pc = "loop",
                                          ![k].todo = successful_downloads]
            /\ self_upload_results' = <<>>
    /\ UNCHANGED <<self_download_results, download_dir, built_player, notGuiVars>>

\* upload_worker, one iteration of the loop: a file that exists is uploaded
\* and its UploadResult appended to self.upload_results
UploadFile(k) ==
    /\ threads[k].kind = "upload"
    /\ threads[k].pc = "loop"
    /\ threads[k].todo # <<>>
    /\ threads' = [threads EXCEPT ![k].todo = Tail(@)]
    /\ \E success \in BOOLEAN :
        self_upload_results' =
            IF Head(threads[k].todo) \in download_dir
            THEN Append(self_upload_results,
                        [track |-> Head(threads[k].todo), success |-> success])
            ELSE self_upload_results
    /\ UNCHANGED <<self_download_results, download_dir, built_player, notGuiVars>>

\* upload_worker after the loop
UploadDone(k) ==
    /\ threads[k].kind = "upload"
    /\ threads[k].pc = "loop"
    /\ threads[k].todo = <<>>
    /\ threads' = OtherThreads(k)
    /\ UNCHANGED <<self_download_results, self_upload_results, download_dir,
                   built_player, notGuiVars>>

\* one step of a running worker
DownloadTrackStep == \E k \in 1..Len(threads) : DownloadTrack(k)
DownloadDoneStep == \E k \in 1..Len(threads) : DownloadDone(k)
UploadBeginStep == \E k \in 1..Len(threads) : UploadBegin(k)
UploadFileStep == \E k \in 1..Len(threads) : UploadFile(k)
UploadDoneStep == \E k \in 1..Len(threads) : UploadDone(k)

\* the orders in which iterdir() may list the files of the folder
Listings(dir) ==
    {order \in [1..Cardinality(dir) -> dir] :
        \A i, j \in 1..Cardinality(dir) : order[i] = order[j] => i = j}

\* create_built_player, the track whose URL entry i carries (0: none):
\* upload_results[i] and local_files[i] are paired with playlist.tracks[i]
EntrySource(upload_results, local_files, i) ==
    IF i <= Len(upload_results) /\ upload_results[i].success
    THEN upload_results[i].track
    ELSE IF i <= Len(local_files) THEN local_files[i] ELSE 0

\* _generate_tts_code: the player is built from self.upload_results when
\* there are any, otherwise from the audio files listed in the folder
GenerateTtsCode ==
    /\ \E local_files \in Listings(download_dir) :
        built_player' =
            [generated |-> TRUE,
             playlist |->
                 IF self_upload_results # <<>>
                 THEN [i \in GuiTracks |-> EntrySource(self_upload_results, <<>>, i)]
                 ELSE [i \in GuiTracks |-> EntrySource(<<>>, local_files, i)]]
    /\ UNCHANGED <<threads, self_download_results, self_upload_results,
                   download_dir, notGuiVars>>

\* the window after construction: nothing downloaded, uploaded or generated
GuiIdle ==
    /\ threads = <<>>
    /\ self_download_results = <<>>
    /\ self_upload_results = <<>>
    /\ download_dir = {}
    /\ built_player = [generated |-> FALSE, playlist |-> <<>>]

\* the buttons pressed at any time, as the window allows
GuiNext ==
    \/ StartDownload
    \/ DownloadTrackStep
    \/ DownloadDoneStep
    \/ StartUpload
    \/ UploadBeginStep
    \/ UploadFileStep
    \/ UploadDoneStep
    \/ GenerateTtsCode

\* a user who presses a button only when no worker runs
StartDownloadWhenIdle == threads = <<>> /\ StartDownload
StartUploadWhenIdle == threads = <<>> /\ StartUpload
GenerateTtsCodeWhenIdle == threads = <<>> /\ GenerateTtsCode

PipelineNext ==
    \/ StartDownloadWhenIdle
    \/ DownloadTrackStep
    \/ DownloadDoneStep
    \/ StartUploadWhenIdle
    \/ UploadBeginStep
    \/ UploadFileStep
    \/ UploadDoneStep
    \/ GenerateTtsCodeWhenIdle

(***************************************************************************)
(* The scene save (tts_formatter.py generate_save_file)                    *)
(***************************************************************************)

DecimalDigits == <<"0", "1", "2", "3", "4", "5", "6", "7", "8", "9">>

\* str(n) of a natural number
RECURSIVE Str(_)
Str(n) ==
    IF n < 10 THEN <<DecimalDigits[n + 1]>>
    ELSE Str(n \div 10) \o <<DecimalDigits[(n % 10) + 1]>>

\* the two URLs written into CustomImage (lines 454-455), abbreviated
DefaultImageURL == <<"s", "t", "e", "a", "m", "/", "A", "E", "7", "A">>
DefaultImageSecondaryURL == <<"s", "t", "e", "a", "m", "/", "9", "D", "A", "6">>

\* image URLs a caller may pass
CustomImageURL == <<"m", "y", "/", "i", "m", "a", "g", "e">>
CustomSecondaryURL == <<"m", "y", "/", "s", "e", "c", "o", "n", "d", "a", "r", "y">>

\* the keyword parameters of generate_save_file (lines 360-362)
SaveFileParameters ==
    {"music_player", "object_guid", "nickname", "description", "use_simple_format"}

\* f"Music Player with {len(music_player.playlist)} tracks"
DefaultDescription(music_player) ==
    <<"M", "u", "s", "i", "c", " ", "P", "l", "a", "y", "e", "r", " ", "w", "i", "t", "h", " ">> \o Str(Len(music_player.playlist)) \o <<" ", "t", "r", "a", "c", "k", "s">>

\* the object of ObjectStates: Nickname, Description and CustomImage (the
\* GUID is random and the Lua script is that of generate_simple_playlist_lua
\* or generate_lua_script; neither depends on the arguments modelled here)
SaveObject(music_player, nickname, description) ==
    [raised |-> FALSE,
     Nickname |-> IF nickname = NoText THEN music_player.name ELSE nickname,
     Description |-> IF description = NoText
                     THEN DefaultDescription(music_player) ELSE description,
     ImageURL |-> DefaultImageURL,
     ImageSecondaryURL |-> DefaultImageSecondaryURL]

\* a call that binds no parameter: TypeError
SaveTypeError ==
    [raised |-> TRUE, Nickname |-> NoText, Description |-> NoText,
     ImageURL |-> NoText, ImageSecondaryURL |-> NoText]

\* generate_save_file called with the keywords of call.keywords: a keyword
\* that is no parameter of the function raises TypeError
generate_save_file(call) ==
    IF call.keywords \subseteq SaveFileParameters
    THEN SaveObject(call.music_player, call.nickname, call.description)
    ELSE SaveTypeError

\* the keywords of a call that passes the image URLs, and of one that does not
WithImageKeywords ==
    {"music_player", "nickname", "description", "image_url", "image_secondary_url"}
WithoutImageKeywords == {"music_player", "nickname", "description"}

\* one call of generate_save_file on the drawn arguments
GenerateSaveFile ==
    /\ save_data = None
    /\ save_data' = generate_save_file(saveCall)
    /\ UNCHANGED <<saveCall, notSvVars>>

\* players of zero to MaxTracks entries; nickname and description given or
\* empty; the image URLs not passed, or passed empty or non-empty
SaveInit ==
    /\ saveCall \in
          [music_player : {[name |-> n, playlist |-> [i \in 1..k |-> i]] :
                              n \in {<<"P">>, <<"Q">>}, k \in 0..MaxTracks},
           nickname : {NoText, <<"N">>},
           description : {NoText, <<"D">>},
           keywords : {WithImageKeywords, WithoutImageKeywords},
           image_url : {NoText, CustomImageURL},
           image_secondary_url : {NoText, CustomSecondaryURL}]
    /\ "image_url" \notin saveCall.keywords =>
          saveCall.image_url = NoText /\ saveCall.image_secondary_url = NoText
    /\ save_data = None

SaveIdle ==
    /\ saveCall = None
    /\ save_data = None

SaveNext == GenerateSaveFile

(***************************************************************************)
(* The manifest as text and its re-parsing (utils/config.py                *)
(* save_playlist_manifest, get_playlist_completeness)                      *)
(***************************************************************************)

\* f"{i:3d}": str(i) right-aligned in three columns
Width3(i) ==
    IF i < 10 THEN <<" ", " ">> \o Str(i)
    ELSE IF i < 100 THEN <<" ">> \o Str(i) ELSE Str(i)

\* the status signs of the track lines
CheckMark == "check"
CrossMark == "cross"

\* lines 388-395: the lines of one track
ManifestTrackText(i, track, tracks_downloaded) ==
    Width3(i) \o <<".", " ">> \o track.artist \o <<" ", "-", " ">> \o track.title
    \o <<" ", IF track \in Range(tracks_downloaded) THEN CheckMark ELSE CrossMark>>
    \o <<Newline>>
    \o (IF track.album # NoText
        THEN <<" ", " ", " ", " ", " ", "A", "l", "b", "u", "m", ":", " ">> \o track.album \o <<Newline>> ELSE <<>>)

\* lines 388-395: the track list from the i-th track on
RECURSIVE ManifestTrackList(_, _, _)
ManifestTrackList(tracks, tracks_downloaded, i) ==
    IF i > Len(tracks) THEN <<>>
    ELSE ManifestTrackText(i, tracks[i], tracks_downloaded)
         \o ManifestTrackList(tracks, tracks_downloaded, i + 1)

\* lines 403-404: the lines of the failed tracks
RECURSIVE FailedTrackList(_)
FailedTrackList(failed_tracks) ==
    IF failed_tracks = <<>> THEN <<>>
    ELSE <<"-", " ">> \o Head(failed_tracks).artist \o <<" ", "-", " ">>
         \o Head(failed_tracks).title \o <<Newline>>
         \o FailedTrackList(Tail(failed_tracks))

\* lines 397-404: the download summary
ManifestSummary(tracks, tracks_downloaded, failed_tracks) ==
    <<Newline>> \o <<"=", "=", "=", " ", "D", "O", "W", "N", "L", "O", "A", "D", " ", "S", "U", "M", "M", "A", "R", "Y", " ", "=", "=", "=">> \o <<Newline>>
    \o <<"S", "u", "c", "c", "e", "s", "s", "f", "u", "l", "l", "y", " ", "d", "o", "w", "n", "l", "o", "a", "d", "e", "d", ":", " ">> \o Str(Len(tracks_downloaded)) \o <<"/">>
    \o Str(Len(tracks)) \o <<" ", "t", "r", "a", "c", "k", "s">> \o <<Newline>>
    \o (IF failed_tracks # <<>>
        THEN <<Newline>> \o <<"F", "a", "i", "l", "e", "d", " ", "d", "o", "w", "n", "l", "o", "a", "d", "s", ":">> \o <<Newline>>
             \o FailedTrackList(failed_tracks)
        ELSE <<>>)

\* lines 380-386: the header (format_duration(0) is "0:00")
ManifestHeader(playlist, tracks_downloaded) ==
    <<"P", "l", "a", "y", "l", "i", "s", "t", ":", " ">> \o playlist.name \o <<Newline>>
    \o <<"S", "e", "r", "v", "i", "c", "e", ":", " ">> \o playlist.service_type \o <<Newline>>
    \o <<"T", "o", "t", "a", "l", " ", "T", "r", "a", "c", "k", "s", ":", " ">> \o Str(Len(playlist.tracks)) \o <<Newline>>
    \o <<"D", "o", "w", "n", "l", "o", "a", "d", "e", "d", ":", " ">> \o Str(Len(tracks_downloaded)) \o <<Newline>>
    \o <<"C", "r", "e", "a", "t", "e", "d", ":", " ", "0", ":", "0", "0">> \o <<Newline, Newline>>

\* save_playlist_manifest with tracks_downloaded given: the text written
ManifestText(playlist, tracks_downloaded) ==
    ManifestHeader(playlist, tracks_downloaded)
    \o <<"=", "=", "=", " ", "T", "R", "A", "C", "K", " ", "L", "I", "S", "T", " ", "=", "=", "=">> \o <<Newline>>
    \o ManifestTrackList(playlist.tracks, tracks_downloaded, 1)
    \o ManifestSummary(playlist.tracks, tracks_downloaded,
                       SelectSeq(playlist.tracks,
                                 LAMBDA t : t \notin Range(tracks_downloaded)))

\* \s and \d of the re module, on the characters of the model
RegexSpace == Whitespace \cup {Newline}
RegexDigit == Range(DecimalDigits)

\* the first index from i on that holds no \s, Len(text) + 1 at the end
RECURSIVE SkipSpace(_, _)
SkipSpace(text, i) ==
    IF i <= Len(text) /\ text[i] \in RegexSpace THEN SkipSpace(text, i + 1) ELSE i

\* the first index from i on that holds no \d, Len(text) + 1 at the end
RECURSIVE SkipDigits(_, _)
SkipDigits(text, i) ==
    IF i <= Len(text) /\ text[i] \in RegexDigit THEN SkipDigits(text, i + 1) ELSE i

\* the value of a decimal digit
DigitValue(c) == CHOOSE v \in 0..9 : DecimalDigits[v + 1] = c

\* int(digits)
RECURSIVE IntOf(_)
IntOf(digits) ==
    IF digits = <<>> THEN 0
    ELSE 10 * IntOf(SubSeq(digits, 1, Len(digits) - 1))
         + DigitValue(digits[Len(digits)])

\* label\s*(\d+) matches at p: the label is at p and a digit follows the
\* whitespace after it
CountMatchesAt(text, label, p) ==
    /\ SubSeq(text, p, p + Len(label) - 1) = label
    /\ SkipDigits(text, SkipSpace(text, p + Len(label)))
          > SkipSpace(text, p + Len(label))

\* group(1) of the match at p, as a number
CountAt(text, label, p) ==
    IntOf(SubSeq(text, SkipSpace(text, p + Len(label)),
                 SkipDigits(text, SkipSpace(text, p + Len(label))) - 1))

\* no match (None)
NoCount == 0 - 1

\* re.search(label + r"\s*(\d+)", content): the number of the leftmost match
RECURSIVE SearchCount(_, _, _)
SearchCount(text, label, p) ==
    IF p + Len(label) > Len(text) THEN NoCount
    ELSE IF CountMatchesAt(text, label, p) THEN CountAt(text, label, p)
         ELSE SearchCount(text, label, p + 1)

\* get_playlist_completeness on the content of the manifest and the number
\* of audio files of the folder
get_playlist_completeness(found_total, found_downloaded, audio_files) ==
    [total_expected |-> IF found_total = NoCount THEN 0 ELSE found_total,
     downloaded |-> IF found_downloaded = NoCount THEN audio_files
                    ELSE found_downloaded,
     audio_files_found |-> audio_files]

\* download_playlist lines 266-277: downloaded_tracks, the tracks whose
\* result succeeded
RECURSIVE DownloadedTracks(_, _, _)
DownloadedTracks(tracks, outcomes, i) ==
    IF i > Len(tracks) THEN <<>>
    ELSE (IF outcomes[i] THEN <<tracks[i]>> ELSE <<>>)
         \o DownloadedTracks(tracks, outcomes, i + 1)

\* download_playlist line 280: the manifest is written after the batch
SaveManifest ==
    /\ manifest_file = None
    /\ manifest_file' =
          [content |-> ManifestText(manifestInput.playlist,
                                    DownloadedTracks(manifestInput.playlist.tracks,
                                                     manifestInput.outcomes, 1))]
    /\ UNCHANGED <<manifestInput, completeness, notMfVars>>

\* get_playlist_completeness on the folder
GetPlaylistCompleteness ==
    /\ manifest_file # None
    /\ completeness = None
    /\ \E content \in {manifest_file.content} :
        completeness' =
            get_playlist_completeness(
                SearchCount(content, <<"T", "o", "t", "a", "l", " ", "T", "r", "a", "c", "k", "s", ":">>, 1),
                SearchCount(content, <<"D", "o", "w", "n", "l", "o", "a", "d", "e", "d", ":">>, 1),
                Cardinality({i \in 1..Len(manifestInput.outcomes) :
                                manifestInput.outcomes[i]}))
    /\ UNCHANGED <<manifestInput, manifest_file, notMfVars>>

\* playlist names: plain ones and ones that read like a line of the header
ManifestNames ==
    {<<"P">>, <<"M", "i", "x", " ", "2">>, <<"T", "o", "t", "a", "l", " ", "T", "r", "a", "c", "k", "s", ":", " ", "7">>, <<"D", "o", "w", "n", "l", "o", "a", "d", "e", "d", ":", " ", "9">>}

\* tracks: a plain one, and one with an album whose title reads like a line
\* of the header
ManifestTracks ==
    {[artist |-> <<"A">>, title |-> <<"S">>, album |-> NoText],
     [artist |-> <<"B">>, title |-> <<"D", "o", "w", "n", "l", "o", "a", "d", "e", "d", ":", " ", "3">>, album |-> <<"L">>]}

\* a playlist of up to MaxTracks tracks and an outcome for each track
ManifestInit ==
    /\ manifestInput \in
          [playlist : [name : ManifestNames, service_type : {<<"l", "a", "s", "t", "f", "m">>},
                       tracks : SeqsUpTo(ManifestTracks, MaxTracks)],
           outcomes : SeqsUpTo(BOOLEAN, MaxTracks)]
    /\ Len(manifestInput.outcomes) = Len(manifestInput.playlist.tracks)
    /\ manifest_file = None
    /\ completeness = None

ManifestIdle ==
    /\ manifestInput = None
    /\ manifest_file = None
    /\ completeness = None

ManifestNext == SaveManifest \/ GetPlaylistCompleteness

\* two Track values with different (artist, title) and one local file
DistinctNamingInit ==
    /\ namingInput \in
          [track : {<<t, u>> : t, u \in [title : Names, artist : Names,
                                         album : {<<>>}, duration : {0}]},
           file_path : {<<"s", ".", "M", "P", "3">>}]
    /\ <<namingInput.track[1].artist, namingInput.track[1].title>>
          # <<namingInput.track[2].artist, namingInput.track[2].title>>
    /\ namingOutput = None

InitRegistry == RegistryInit /\ DownloaderIdle /\ UploaderIdle /\ NamingIdle /\ SpotifyIdle /\ FormatterIdle
    /\ RenderIdle
    /\ ChannelIdle
    /\ ListingIdle
    /\ ResolveIdle
    /\ ParseIdle
    /\ FollowUpIdle
    /\ CollectionIdle
    /\ GuiIdle
    /\ SaveIdle
    /\ ManifestIdle

SpecRegistry == InitRegistry /\ [][RegistryNext]_vars

\* single search_and_download_track calls on one directory
InitAcquire ==
    /\ RegistryInit
    /\ DownloaderInit
    /\ playlist_info = PlaylistInfo("P", <<>>)
    /\ UploaderIdle
    /\ NamingIdle /\ SpotifyIdle /\ FormatterIdle
    /\ RenderIdle
    /\ ChannelIdle
    /\ ListingIdle
    /\ ResolveIdle
    /\ ParseIdle
    /\ FollowUpIdle
    /\ CollectionIdle
    /\ GuiIdle
    /\ SaveIdle
    /\ ManifestIdle

SpecAcquire == InitAcquire /\ [][AcquireNext]_vars

\* download_playlist invoked again and again on one collection and directory
InitBatch ==
    /\ RegistryInit
    /\ DownloaderInit
    /\ playlist_info \in {PlaylistInfo("P", t) : t \in SeqsUpTo(Tracks, MaxTracks)}
    /\ UploaderIdle
    /\ NamingIdle /\ SpotifyIdle /\ FormatterIdle
    /\ RenderIdle
    /\ ChannelIdle
    /\ ListingIdle
    /\ ResolveIdle
    /\ ParseIdle
    /\ FollowUpIdle
    /\ CollectionIdle
    /\ GuiIdle
    /\ SaveIdle
    /\ ManifestIdle

SpecBatch == InitBatch /\ [][BatchNext]_vars

\* upload_audio_file calls on one container
InitUploader == RegistryInit /\ DownloaderIdle /\ UploaderInit /\ NamingIdle /\ SpotifyIdle /\ FormatterIdle
    /\ RenderIdle
    /\ ChannelIdle
    /\ ListingIdle
    /\ ResolveIdle
    /\ ParseIdle
    /\ FollowUpIdle
    /\ CollectionIdle
    /\ GuiIdle
    /\ SaveIdle
    /\ ManifestIdle

SpecUploader == InitUploader /\ [][UploaderNext]_vars

\* one upload_playlist_files call on one container
InitUploadBatch == InitUploader
    /\ ChannelIdle
    /\ ListingIdle
    /\ ResolveIdle
    /\ ParseIdle
    /\ FollowUpIdle
    /\ CollectionIdle
    /\ GuiIdle
    /\ SaveIdle
    /\ ManifestIdle

SpecUploadBatch == InitUploadBatch /\ [][UploadBatchNext]_vars

\* the name derivations applied to pairs of tracks
InitNaming == RegistryInit /\ DownloaderIdle /\ UploaderIdle /\ NamingInit /\ SpotifyIdle /\ FormatterIdle
    /\ RenderIdle
    /\ ChannelIdle
    /\ ListingIdle
    /\ ResolveIdle
    /\ ParseIdle
    /\ FollowUpIdle
    /\ CollectionIdle
    /\ GuiIdle
    /\ SaveIdle
    /\ ManifestIdle

SpecNaming == InitNaming /\ [][NamingNext]_vars

\* _make_request called repeatedly
InitSpotify ==
    RegistryInit /\ DownloaderIdle /\ UploaderIdle /\ NamingIdle /\ SpotifyInit
    /\ FormatterIdle
    /\ RenderIdle
    /\ ChannelIdle
    /\ ListingIdle
    /\ ResolveIdle
    /\ ParseIdle
    /\ FollowUpIdle
    /\ CollectionIdle
    /\ GuiIdle
    /\ SaveIdle
    /\ ManifestIdle

SpecSpotify == InitSpotify /\ [][SpotifyNext]_vars

\* create_music_player applied to drawn arguments
InitFormatter ==
    RegistryInit /\ DownloaderIdle /\ UploaderIdle /\ NamingIdle /\ SpotifyIdle
    /\ FormatterInit
    /\ RenderIdle
    /\ ChannelIdle
    /\ ListingIdle
    /\ ResolveIdle
    /\ ParseIdle
    /\ FollowUpIdle
    /\ CollectionIdle
    /\ GuiIdle
    /\ SaveIdle
    /\ ManifestIdle

SpecFormatter == InitFormatter /\ [][FormatterNext]_vars

\* generate_json_data applied to built players
InitRender ==
    RegistryInit /\ DownloaderIdle /\ UploaderIdle /\ NamingIdle /\ SpotifyIdle
    /\ FormatterIdle /\ RenderInit
    /\ ChannelIdle
    /\ ListingIdle
    /\ ResolveIdle
    /\ ParseIdle
    /\ FollowUpIdle
    /\ CollectionIdle
    /\ GuiIdle
    /\ SaveIdle
    /\ ManifestIdle

SpecRender == InitRender /\ [][RenderNext]_vars

\* _is_official_channel applied to drawn channel titles
InitChannel ==
    RegistryInit /\ DownloaderIdle /\ UploaderIdle /\ NamingIdle /\ SpotifyIdle
    /\ FormatterIdle /\ RenderIdle /\ ChannelInit
    /\ ListingIdle
    /\ ResolveIdle
    /\ ParseIdle
    /\ FollowUpIdle
    /\ CollectionIdle
    /\ GuiIdle
    /\ SaveIdle
    /\ ManifestIdle

SpecChannel == InitChannel /\ [][ChannelNext]_vars

\* listing and search calls on the three adapters
InitListing ==
    RegistryInit /\ DownloaderIdle /\ UploaderIdle /\ NamingIdle /\ SpotifyIdle
    /\ FormatterIdle /\ RenderIdle /\ ChannelIdle /\ ListingInit
    /\ ResolveIdle
    /\ ParseIdle
    /\ FollowUpIdle
    /\ CollectionIdle
    /\ GuiIdle
    /\ SaveIdle
    /\ ManifestIdle

SpecListing == InitListing /\ [][ListingNext]_vars

\* get_playlist_tracks calls on the three adapters
InitResolve ==
    RegistryInit /\ DownloaderIdle /\ UploaderIdle /\ NamingIdle /\ SpotifyIdle
    /\ FormatterIdle /\ RenderIdle /\ ChannelIdle /\ ListingIdle /\ ResolveInit
    /\ ParseIdle
    /\ FollowUpIdle
    /\ CollectionIdle
    /\ GuiIdle
    /\ SaveIdle
    /\ ManifestIdle

SpecResolve == InitResolve /\ [][ResolveNext]_vars

\* _parse_track_from_title on the drawn titles
InitParse ==
    RegistryInit /\ DownloaderIdle /\ UploaderIdle /\ NamingIdle /\ SpotifyIdle
    /\ FormatterIdle /\ RenderIdle /\ ChannelIdle /\ ListingIdle /\ ResolveIdle
    /\ ParseInit
    /\ FollowUpIdle
    /\ CollectionIdle
    /\ GuiIdle
    /\ SaveIdle
    /\ ManifestIdle

SpecParse == InitParse /\ [][ParseNext]_vars

\* Tracks built from playlist items, with the Topic follow-up search
InitFollowUp ==
    RegistryInit /\ DownloaderIdle /\ UploaderIdle /\ NamingIdle /\ SpotifyIdle
    /\ FormatterIdle /\ RenderIdle /\ ChannelIdle /\ ListingIdle /\ ResolveIdle
    /\ ParseIdle /\ FollowUpInit
    /\ CollectionIdle
    /\ GuiIdle
    /\ SaveIdle
    /\ ManifestIdle

SpecFollowUp == InitFollowUp /\ [][FollowUpNext]_vars

\* selecting, resolving and lazily loading collections in the playlist tab
InitCollection ==
    RegistryInit /\ DownloaderIdle /\ UploaderIdle /\ NamingIdle /\ SpotifyIdle
    /\ FormatterIdle /\ RenderIdle /\ ChannelIdle /\ ListingIdle /\ ResolveInit
    /\ ParseIdle /\ FollowUpIdle /\ CollectionIdle
    /\ GuiIdle
    /\ SaveIdle
    /\ ManifestIdle

SpecCollection == InitCollection /\ [][CollectionNext]_vars

\* the window with its buttons pressed at any time
InitGui ==
    RegistryInit /\ DownloaderIdle /\ UploaderIdle /\ NamingIdle /\ SpotifyIdle
    /\ FormatterIdle /\ RenderIdle /\ ChannelIdle /\ ListingIdle /\ ResolveIdle
    /\ ParseIdle /\ FollowUpIdle /\ CollectionIdle /\ GuiIdle
    /\ SaveIdle
    /\ ManifestIdle

SpecGui == InitGui /\ [][GuiNext]_vars

\* the window with each operation awaited before the next button is pressed
SpecPipeline == InitGui /\ [][PipelineNext]_vars

\* generate_save_file on players, texts and image URLs
InitSave ==
    RegistryInit /\ DownloaderIdle /\ UploaderIdle /\ NamingIdle /\ SpotifyIdle
    /\ FormatterIdle /\ RenderIdle /\ ChannelIdle /\ ListingIdle /\ ResolveIdle
    /\ ParseIdle /\ FollowUpIdle /\ CollectionIdle /\ GuiIdle /\ SaveInit
    /\ ManifestIdle

SpecSave == InitSave /\ [][SaveNext]_vars

\* the manifest of a batch written and re-parsed
InitManifest ==
    RegistryInit /\ DownloaderIdle /\ UploaderIdle /\ NamingIdle /\ SpotifyIdle
    /\ FormatterIdle /\ RenderIdle /\ ChannelIdle /\ ListingIdle /\ ResolveIdle
    /\ ParseIdle /\ FollowUpIdle /\ CollectionIdle /\ GuiIdle /\ SaveIdle
    /\ ManifestInit

SpecManifest == InitManifest /\ [][ManifestNext]_vars

\* the derivations for two different songs
InitDistinctNaming ==
    RegistryInit /\ DownloaderIdle /\ UploaderIdle /\ DistinctNamingInit
    /\ SpotifyIdle /\ FormatterIdle /\ RenderIdle /\ ChannelIdle /\ ListingIdle
    /\ ResolveIdle /\ ParseIdle /\ FollowUpIdle /\ CollectionIdle /\ GuiIdle
    /\ SaveIdle /\ ManifestIdle

SpecDistinctNaming == InitDistinctNaming /\ [][NamingNext]_vars

Init == InitRegistry

Next == RegistryNext

Spec == SpecRegistry

(***************************************************************************)
(* C1: a configure_service call that returns false (connection test false, *)
(* construction or test raising, unsupported tag) leaves the stored        *)
(* adapters, the enabled flags and the stored credentials of every tag     *)
(* exactly as they were; a never-configured tag stays enabled = false.     *)
(***************************************************************************)
C1_FailedConfigureLeavesRegistry ==
    [][(lastConfigure' # lastConfigure /\ ~lastConfigure'.returned)
          => (services' = services /\ service_configs' = service_configs)]_vars

\* a failed configure has been issued on a tag that holds a working adapter
\* configured with other credentials
C1_Witness ==
    /\ lastConfigure # None
    /\ ~lastConfigure.returned
    /\ lastConfigure.tag \in Tags
    /\ services[lastConfigure.tag] # None
    /\ services[lastConfigure.tag].credentials # lastConfigure.credentials
    /\ service_configs[lastConfigure.tag].enabled

(***************************************************************************)
(* C6: get_all_playlists / search_all_services return exactly one entry    *)
(* per tag enabled when the call is made; the entry of an adapter that     *)
(* raised is the empty list, the entry of every other enabled adapter is   *)
(* the data that adapter returned; the call itself does not raise.         *)
(***************************************************************************)
C6_DispatchIsolatesFailures ==
    [][lastDispatch' # lastDispatch =>
          /\ ~lastDispatch'.out.raised
          /\ DOMAIN lastDispatch'.out.results = EnabledTags
          /\ \A t \in EnabledTags :
                lastDispatch'.out.results[t] =
                    IF lastDispatch'.adapterOutcome[t] = Raise
                    THEN <<>>
                    ELSE lastDispatch'.adapterOutcome[t]]_vars

\* one enabled adapter raised while another returned playlists
C6_Witness ==
    /\ lastDispatch # None
    /\ \E t, u \in DOMAIN lastDispatch.adapterOutcome :
          /\ lastDispatch.adapterOutcome[t] = Raise
          /\ lastDispatch.adapterOutcome[u] = <<"p1", "p2">>
          /\ lastDispatch.out.results[u] = <<"p1", "p2">>

(***************************************************************************)
(* C2: when a search_and_download_track call succeeded, the next call for  *)
(* the same track on the same directory succeeds without invoking the      *)
(* fetch capability, whether or not FFmpeg is available and whatever       *)
(* extension the fetched file has.                                         *)
(***************************************************************************)
C2_SecondAcquireDoesNotFetch ==
    [][(/\ lastAcquire # None
        /\ lastAcquire.result.success
        /\ lastAcquire' # lastAcquire
        /\ lastAcquire'.result.track = lastAcquire.result.track)
          => (lastAcquire'.result.success /\ ~lastAcquire'.result.fetched)]_vars

\* the audio files of the directory that were produced for the song of track
FilesOfSong(track) ==
    {f \in files : \E ext \in FetchedExtensions :
                      f = sanitize_filename(ArtistTitle(track) \o ext)}

(***************************************************************************)
(* C8: after any sequence of search_and_download_track calls on one        *)
(* directory, the directory holds at most one audio file per (artist,      *)
(* title) pair.                                                            *)
(***************************************************************************)
C8_OneFilePerSong ==
    \A track \in Tracks : Cardinality(FilesOfSong(track)) <= 1

(***************************************************************************)
(* C4: when download_playlist is invoked again on the same collection and  *)
(* directory, a fetch is issued only for tracks whose result failed in the *)
(* earlier run; a track that succeeded earlier is answered from its        *)
(* existing file, and no existing file is written again.                   *)
(***************************************************************************)
C4_RerunFetchesOnlyFailed ==
    [][(batch # None /\ batch' = None /\ lastBatch # None)
          => \A i \in 1..Len(playlist_info.tracks) :
                lastBatch.results[i].success
                   => /\ lastBatch'.results[i].success
                      /\ ~lastBatch'.results[i].fetched]_vars

(***************************************************************************)
(* C5: download_playlist over N tracks returns exactly N results, the i-th *)
(* for the i-th track; the manifest's Total Tracks is N and its Downloaded *)
(* is the number of successful results.                                    *)
(***************************************************************************)
C5_BatchResultsAndManifest ==
    lastBatch # None =>
        /\ Len(lastBatch.results) = Len(playlist_info.tracks)
        /\ \A i \in 1..Len(playlist_info.tracks) :
              lastBatch.results[i].track = playlist_info.tracks[i]
        /\ lastBatch.manifest.total_tracks = Len(playlist_info.tracks)
        /\ lastBatch.manifest.downloaded =
              Cardinality({i \in 1..Len(lastBatch.results) :
                              lastBatch.results[i].success})

\* a completed batch in which one track failed and a later one succeeded
C5_Witness ==
    /\ lastBatch # None
    /\ \E i, j \in 1..Len(lastBatch.results) :
          /\ i < j
          /\ ~lastBatch.results[i].success
          /\ lastBatch.results[j].success
          /\ lastBatch.results[j].fetched

C7_NamesDependOnArtistTitleOnly ==
    namingOutput # None =>
        /\ namingOutput.path[1] = namingOutput.path[2]
        /\ namingOutput.key[1] = namingOutput.key[2]
        /\ namingOutput.key[1] =
              AudioFolder \o SanitizeBlobPart(namingInput.track[1].artist)
              \o Separator \o SanitizeBlobPart(namingInput.track[1].title)
              \o Lower(PathSuffix(namingInput.file_path))

\* names have been derived for two tracks that differ in album and duration
\* and whose artist holds characters the sanitisers delete
C7_Witness ==
    /\ namingOutput # None
    /\ namingInput.track[1].album # namingInput.track[2].album
    /\ namingInput.track[1].duration # namingInput.track[2].duration
    /\ namingInput.track[1].artist = <<"/", "a">>
    /\ namingInput.track[1].title = <<"a", " ">>
    /\ namingOutput.path[1] = <<"a", " ", "-", " ", "a", " ", ".", "m", "p", "3">>

(***************************************************************************)
(* C9: within one _make_request call a 401 response to the first GET is    *)
(* followed by exactly one _authenticate call and, when that succeeds, by  *)
(* exactly one more GET carrying the new token; when the second GET does   *)
(* not answer 200 the call returns None; a call sends at most two GETs and *)
(* a second GET only ever follows a 401 response.                          *)
(***************************************************************************)
C9_ReauthenticateOnceRetryOnce ==
    lastRequest # None =>
        LET r == lastRequest.result
            n == Len(r.gets)
            unauthorized == n >= 1 /\ ~r.gets[1].raises /\ r.gets[1].status_code = 401
        IN  /\ n <= 2
            /\ Len(r.reauth) <= 1
            /\ unauthorized =>
                  /\ Len(r.reauth) = 1
                  /\ r.reauth[1].returned => n = 2
                  /\ ~r.reauth[1].returned => (n = 1 /\ r.returned = None)
            /\ ~unauthorized => (n <= 1 /\ Len(r.reauth) = 0)
            /\ n = 2 =>
                  /\ r.gets[2].bearer = r.reauth[1].access_token
                  /\ r.gets[2].bearer = access_token
                  /\ (r.gets[2].raises \/ r.gets[2].status_code # 200)
                        => r.returned = None
                  /\ (~r.gets[2].raises /\ r.gets[2].status_code = 200)
                        => r.returned = Json(r.endpoint)

\* a call whose first GET was answered 401, that obtained a different token,
\* retried with it and failed again
C9_Witness ==
    /\ lastRequest # None
    /\ Len(lastRequest.result.gets) = 2
    /\ lastRequest.result.gets[1].status_code = 401
    /\ lastRequest.result.gets[1].bearer = "tokenA"
    /\ lastRequest.result.gets[2].bearer = "tokenB"
    /\ lastRequest.result.gets[2].status_code = 500
    /\ lastRequest.result.returned = None

(***************************************************************************)
(* C10: create_music_player returns a player with one entry per track of   *)
(* the playlist, in the playlist's order; the URL of entry i is the        *)
(* public URL of upload result i when that result succeeded and has one,   *)
(* else the file URI of local file i when that file exists, else empty.    *)
(***************************************************************************)
C10_OneEntryPerTrack ==
    lastPlayer # None =>
        LET playlist == formatterInput.playlist
            upload_results == formatterInput.upload_results
            local_files == formatterInput.local_files
        IN  /\ ~lastPlayer.raised
            /\ Len(lastPlayer.playlist) = Len(playlist.tracks)
            /\ \A i \in 1..Len(playlist.tracks) :
                  /\ i <= Len(lastPlayer.playlist)
                  /\ lastPlayer.playlist[i].name = AudioName(playlist.tracks[i])
                  /\ lastPlayer.playlist[i].url =
                        IF /\ i <= Len(upload_results)
                           /\ upload_results[i].success
                           /\ upload_results[i].public_url # NoText
                        THEN upload_results[i].public_url
                        ELSE IF /\ i <= Len(local_files)
                                /\ LocalPathExists(local_files[i])
                        THEN AsUri(local_files[i])
                        ELSE NoText

(***************************************************************************)
(* C11: parsing the text of generate_json_data gives back the player's     *)
(* name and a playlist of the same length and order whose (name, url)      *)
(* pairs are those of the player, also for names holding quotes,           *)
(* backslashes, control characters and non-ASCII characters.               *)
(***************************************************************************)
C11_JsonRoundTrip ==
    rendered # None =>
        LET playlist == rendered.music_player.playlist
            parsed == rendered.parsed
        IN  /\ parsed.name = rendered.music_player.name
            /\ Len(parsed.names) = Len(playlist)
            /\ Len(parsed.urls) = Len(playlist)
            /\ \A i \in 1..Len(playlist) :
                  /\ i <= Len(parsed.names) /\ i <= Len(parsed.urls)
                  /\ parsed.names[i] = playlist[i].name
                  /\ parsed.urls[i] = playlist[i].url

\* a player of two entries has been rendered and parsed, the first name
\* holding a quote and a backslash, the second a non-ASCII character
C11_Witness ==
    /\ rendered # None
    /\ Len(rendered.music_player.playlist) = 2
    /\ rendered.music_player.playlist[1].name = <<Quote, Backslash>> \o <<" ", "-", " ", "x">>
    /\ rendered.music_player.playlist[2].name = <<EAcute>> \o <<" ", "-", " ", "x">>
    /\ rendered.music_player.playlist[1].url = UrlA
    /\ rendered.music_player.playlist[2].url = NoText
    /\ Len(rendered.parsed.names) = 2

(***************************************************************************)
(* C12: every upload_audio_file call returns an UploadResult; with the     *)
(* client not initialised, the local file missing or upload_blob raising   *)
(* the result has success = false and a non-empty error message; and a     *)
(* result carries a public URL exactly when its success is true.           *)
(***************************************************************************)
C12_PublishReturnsResult ==
    lastUpload # None =>
        LET result == lastUpload.result
        IN  /\ result.success \in BOOLEAN
            /\ (\/ ~blob_service_client
                \/ lastUpload.file_path \notin localFiles)
                  => ~result.success
            /\ ~result.success => NonEmptyMessage(result.error_message)
            /\ result.success <=> result.public_url # NoText

\* a transfer was attempted and upload_blob raised an exception without text
C12_Witness ==
    /\ lastUpload # None
    /\ lastUpload.transfer
    /\ ~lastUpload.result.success
    /\ lastUpload.result.error_message = <<"Upload failed: ", "">>
    /\ lastUpload.result.public_url = NoText

(***************************************************************************)
(* C13: upload_playlist_files returns one UploadResult per path, in the    *)
(* order of the paths; item i is the upload_audio_file call for path i     *)
(* with track i (no track when the track list is absent or shorter); an    *)
(* item that fails is followed by the calls for all later items.           *)
(***************************************************************************)
C13_BatchPublishesEveryPath ==
    lastUploadBatch # None =>
        LET b == lastUploadBatch
            n == Len(b.file_paths)
        IN  /\ Len(b.results) = n
            /\ Len(b.calls) = n
            /\ \A i \in 1..n :
                  /\ i <= Len(b.calls) /\ i <= Len(b.results)
                  /\ b.calls[i].file_path = b.file_paths[i]
                  /\ b.calls[i].track =
                        IF i <= Len(b.tracks) THEN b.tracks[i] ELSE NoTrack
                  /\ b.results[i].file_path = b.file_paths[i]
                  /\ b.results[i].success =>
                        b.results[i].blob_name =
                            GenerateBlobName(b.file_paths[i], b.calls[i].track)

\* a batch of two paths whose first item failed and whose second item was
\* published with the second track
C13_Witness ==
    /\ lastUploadBatch # None
    /\ Len(lastUploadBatch.file_paths) = 2
    /\ lastUploadBatch.tracks = <<TrackA, TrackB>>
    /\ ~lastUploadBatch.results[1].success
    /\ lastUploadBatch.results[2].success
    /\ lastUploadBatch.results[2].blob_name =
          GenerateBlobName(lastUploadBatch.file_paths[2], TrackB)

(***************************************************************************)
(* C20 as stated: a channel is official exactly when it neither ends in    *)
(* " - Topic" nor contains "Auto-generated" or "Auto-Generated", or its    *)
(* name contains one of the indicators, case-insensitively.                *)
(***************************************************************************)
C20_OfficialAsStated ==
    classified # None =>
        (classified.official <=>
            \/ /\ ~EndsWith(channel, TopicSuffix)
               /\ ~Contains(channel, <<"A", "u", "t", "o", "-", "g", "e", "n", "e", "r", "a", "t", "e", "d">>)
               /\ ~Contains(channel, <<"A", "u", "t", "o", "-", "G", "e", "n", "e", "r", "a", "t", "e", "d">>)
            \/ HasOfficialIndicator(channel))

(***************************************************************************)
(* C20 amended: a channel is official exactly when its title is not empty, *)
(* does not end in " - Topic", and either contains one of the indicators   *)
(* (case-insensitively) or contains neither "- Auto-generated by YouTube"  *)
(* nor "Auto-Generated".                                                   *)
(***************************************************************************)
C20_OfficialChannel ==
    classified # None =>
        (classified.official <=>
            /\ channel # <<>>
            /\ ~EndsWith(channel, TopicSuffix)
            /\ \/ \E k \in 1..Len(official_indicators) :
                     Contains(AsciiLower(channel),
                              AsciiLower(official_indicators[k]))
               \/ /\ ~Contains(channel, <<"-", " ", "A", "u", "t", "o", "-", "g", "e", "n", "e", "r", "a", "t", "e", "d", " ", "b", "y", " ", "Y", "o", "u", "T", "u", "b", "e">>)
                  /\ ~Contains(channel, <<"A", "u", "t", "o", "-", "G", "e", "n", "e", "r", "a", "t", "e", "d">>))

\* a title that holds an indicator and ends in " - Topic" has been
\* classified as not official
C20_Witness ==
    /\ classified # None
    /\ channel = <<" ", "M", "U", "S", "I", "C", " ", "-", " ", "T", "o", "p", "i", "c">>
    /\ ~classified.official

(***************************************************************************)
(* C14: no get_user_playlists or search_playlists call of an adapter lets  *)
(* an exception escape, and a call whose upstream request fails (HTTP      *)
(* error, transport error, body without the expected keys, client not      *)
(* initialised) returns the empty list.                                    *)
(***************************************************************************)
C14_ListingFailsEmpty ==
    lastListing # None =>
        /\ ~lastListing.result.raised
        /\ (/\ lastListing.service # "lastfm"
            /\ \/ lastListing.fault # "none"
               \/ lastListing.service = "youtube" /\ ~remote.youtube)
              => lastListing.result.returned = <<>>

(***************************************************************************)
(* C17: a get_user_playlists call of the YouTube or Spotify adapter that   *)
(* meets no failure returns every playlist the upstream account holds, in  *)
(* upstream order, however many pages upstream needs for them; the YouTube *)
(* adapter returns after them exactly Liked Videos and Watch Later.        *)
(***************************************************************************)
C17_ListingDrainsPages ==
    (/\ lastListing # None
     /\ lastListing.op = "get_user_playlists"
     /\ lastListing.fault = "none"
     /\ remote.malformed = 0
     /\ \/ lastListing.service = "youtube" /\ remote.youtube /\ remote.channel_id
        \/ lastListing.service = "spotify" /\ remote.user_id)
      => LET returned == lastListing.result.returned
             own == [i \in 1..remote.count |->
                        PlaylistEntry(IF lastListing.service = "youtube"
                                      THEN "YOUTUBE_PLAYLIST"
                                      ELSE "SPOTIFY_PLAYLIST", i)]
         IN  /\ ~lastListing.result.raised
             /\ returned = IF lastListing.service = "youtube"
                           THEN own \o special_playlists
                           ELSE own

(***************************************************************************)
(* C15: a get_playlist_tracks call for a playlist that does not exist      *)
(* upstream (an unknown collection identifier for Last.fm), or whose       *)
(* request fails with an HTTP or transport error, raises an error with a   *)
(* message; it does not return a PlaylistInfo.                             *)
(***************************************************************************)
C15_ResolveFailureRaises ==
    (/\ lastResolve # None
     /\ \/ lastResolve.fault \in {"http", "network"}
        \/ lastResolve.service # "lastfm" /\ ~library.exists
        \/ lastResolve.service = "lastfm"
           /\ lastResolve.playlist_id \notin LastFMCollections)
      => /\ lastResolve.result.raised
         /\ lastResolve.result.error # ""

(***************************************************************************)
(* C16: when one item of an upstream response lacks an expected field and  *)
(* the call is otherwise successful, get_playlist_tracks does not raise    *)
(* and returns the same items, in the same order, as it returns when that  *)
(* item is well formed: the remaining items are neither dropped nor cut.   *)
(***************************************************************************)
C16_MalformedItemFallsBack ==
    (/\ lastResolve # None
     /\ lastResolve.fault = "none"
     /\ library.malformed # 0
     /\ \/ lastResolve.service = "youtube" /\ library.youtube /\ library.exists
        \/ lastResolve.service = "spotify" /\ library.exists
        \/ lastResolve.service = "lastfm" /\ library.username
           /\ lastResolve.playlist_id \in LastFMCollections)
      => LET wellFormed == GetPlaylistTracks(lastResolve.service,
                                             [library EXCEPT !.malformed = 0],
                                             lastResolve.playlist_id,
                                             lastResolve.fault,
                                             lastResolve.cap).tracks
             returned == lastResolve.result.tracks
         IN  /\ ~lastResolve.result.raised
             /\ Len(returned) = Len(wellFormed)
             /\ \A i \in 1..Len(returned) :
                    returned[i].service_id = wellFormed[i].service_id

(***************************************************************************)
(* C18: a successful get_playlist_tracks call of the YouTube or Spotify    *)
(* adapter with a caller-supplied cap returns at most cap tracks, returns  *)
(* every track of a playlist that is not longer than the cap, and returns  *)
(* the tracks in upstream order starting from the first.                   *)
(***************************************************************************)
C18_ResolvePagesUpToCap ==
    (/\ lastResolve # None
     /\ lastResolve.fault = "none"
     /\ library.malformed = 0
     /\ library.exists
     /\ \/ lastResolve.service = "youtube" /\ library.youtube
        \/ lastResolve.service = "spotify")
      => LET returned == lastResolve.result.tracks
         IN  /\ ~lastResolve.result.raised
             /\ Len(returned) <= lastResolve.cap
             /\ library.count <= lastResolve.cap => Len(returned) = library.count
             /\ \A i \in 1..Len(returned) : returned[i].service_id = i

(***************************************************************************)
(* C19: a successful get_playlist_tracks call of the Last.fm adapter for   *)
(* loved_tracks returns at most limit tracks, the first ones in upstream   *)
(* order; with limit 3 and 5 tracks sent by the service it returns exactly *)
(* the first 3.                                                            *)
(***************************************************************************)
C19_LovedTracksTruncated ==
    (/\ lastResolve # None
     /\ lastResolve.service = "lastfm"
     /\ lastResolve.playlist_id = "loved_tracks"
     /\ lastResolve.fault = "none"
     /\ library.username)
      => LET returned == lastResolve.result.tracks
         IN  /\ ~lastResolve.result.raised
             /\ Len(returned) <= lastResolve.cap
             /\ \A i \in 1..Len(returned) : returned[i].service_id = i
             /\ (lastResolve.cap = 3 /\ library.count = 5) => Len(returned) = 3

C22_FollowUpBestEffort ==
    itemTrack # None =>
        LET original == parse_track_from_title(playlistItem.title, playlistItem.channel)
            searched == itemTrack.searched
        IN  /\ (searched.raised \/ searched.items = <<>>) => itemTrack.track = original
            /\ itemTrack.track # original
                  => \E i \in 1..Len(searched.items) :
                         IsOfficialChannel(searched.items[i].channel)

(***************************************************************************)
(* C23: once the tracks of the selected collection have been populated, by *)
(* the adapter that constructed it or by the lazy load, its declared       *)
(* total_tracks equals the number of its tracks.                           *)
(***************************************************************************)
C23_TotalMatchesTracks ==
    (selected_playlist # None /\ selected_playlist.populated)
        => selected_playlist.total_tracks = Len(selected_playlist.tracks)

\* C24: at no time do two download workers, or two upload workers, run: a
\* second press of the button while a worker is in progress starts no worker
C24_OneWorkerPerOperation ==
    \A j, k \in 1..Len(threads) :
        threads[j].kind = threads[k].kind => j = k

C25_SaveCarriesCallerValues ==
    save_data # None =>
        /\ ~save_data.raised
        /\ save_data.ImageURL =
              IF saveCall.image_url # NoText /\ saveCall.image_secondary_url # NoText
              THEN saveCall.image_url ELSE DefaultImageURL
        /\ save_data.ImageSecondaryURL =
              IF saveCall.image_url # NoText /\ saveCall.image_secondary_url # NoText
              THEN saveCall.image_secondary_url ELSE DefaultImageSecondaryURL
        /\ save_data.Nickname =
              IF saveCall.nickname # NoText THEN saveCall.nickname
              ELSE saveCall.music_player.name
        /\ save_data.Description =
              IF saveCall.description # NoText THEN saveCall.description
              ELSE DefaultDescription(saveCall.music_player)

\* the part of C25 on nickname, description and the default pair, for the
\* calls that pass no image URL
C25_WithoutImageArguments ==
    (save_data # None /\ "image_url" \notin saveCall.keywords) =>
        C25_SaveCarriesCallerValues

\* C26: re-parsing the manifest of a batch yields total_expected = the
\* number of tracks of the collection and downloaded = the number of
\* successfully downloaded tracks, whatever the names contain
C26_ManifestRoundTrip ==
    completeness # None =>
        /\ completeness.total_expected = Len(manifestInput.playlist.tracks)
        /\ completeness.downloaded =
              Cardinality({i \in 1..Len(manifestInput.outcomes) :
                              manifestInput.outcomes[i]})

\* the round trip for the playlist names that contain neither label
C26_PlainNamesRoundTrip ==
    (completeness # None
     /\ manifestInput.playlist.name \in {<<"P">>, <<"M", "i", "x", " ", "2">>}) =>
        C26_ManifestRoundTrip

\* C27: in the manifest of a batch the line of the i-th track carries the
\* success marker exactly when the i-th DownloadResult succeeded, and the
\* failed block lists exactly the tracks whose result failed, in order
C27_MarkersFollowResults ==
    lastBatch # None =>
        /\ \A i \in 1..Len(lastBatch.results) :
              lastBatch.manifest.lines[i].ok <=> lastBatch.results[i].success
        /\ \E failed \in {SelectSeq(lastBatch.results, LAMBDA r : ~r.success)} :
              /\ Len(lastBatch.manifest.failed) = Len(failed)
              /\ \A j \in 1..Len(failed) :
                    lastBatch.manifest.failed[j] = failed[j].track

\* the same for the collections without a repeated track
C27_DistinctTracksMarkers ==
    (lastBatch # None
     /\ \A i, j \in 1..Len(playlist_info.tracks) :
           playlist_info.tracks[i] = playlist_info.tracks[j] => i = j) =>
        C27_MarkersFollowResults

(***************************************************************************)
(* C28: after any sequence of configure_service calls a tag is enabled if  *)
(* and only if an adapter is stored for it; the adapter stored under a tag *)
(* is one adapter of that tag, built from the stored credentials; and the  *)
(* stored credentials of a tag change only in a successful configure of    *)
(* that tag, to the credentials of that call.                              *)
(***************************************************************************)
C28_RegistryInvariant ==
    /\ [](\A t \in Tags :
            /\ service_configs[t].enabled <=> services[t] # None
            /\ services[t] # None =>
                  /\ services[t].type = t
                  /\ services[t].credentials = service_configs[t].credentials)
    /\ [][\A t \in Tags :
            IF /\ lastConfigure' # lastConfigure
               /\ lastConfigure'.returned
               /\ lastConfigure'.tag = t
            THEN service_configs'[t].credentials = lastConfigure'.credentials
            ELSE service_configs'[t] = service_configs[t]]_vars

\* a tag configured with one credential set holds these after a failed
\* configure with the other set, while another tag is enabled too and the
\* third has never been configured
C28_Witness ==
    /\ lastConfigure # None
    /\ ~lastConfigure.returned
    /\ lastConfigure.tag = "lastfm"
    /\ lastConfigure.credentials = "credsA"
    /\ service_configs["lastfm"].enabled
    /\ service_configs["lastfm"].credentials = "credsB"
    /\ services["lastfm"] # None
    /\ service_configs["youtube"].enabled
    /\ ~service_configs["spotify"].enabled

\* C29: two tracks with different (artist, title) get different expected
\* filenames and, for the same local file, different blob names
C29_DistinctSongsDistinctNames ==
    namingOutput # None =>
        /\ namingOutput.path[1] # namingOutput.path[2]
        /\ namingOutput.key[1] # namingOutput.key[2]

\* the same for artists and titles made of letters only
C29_PlainNamesDistinct ==
    (namingOutput # None
     /\ \A i \in 1..2 :
           /\ Range(namingInput.track[i].artist) = {"a"}
           /\ Range(namingInput.track[i].title) = {"a"}) =>
        C29_DistinctSongsDistinctNames

====
